---- MODULE Spec2Model ----
(***************************************************************************)
(* Model of the BarikWrapped journey / fare inference engine               *)
(* (buildFareInsights, buildJourneyBlocks, computeJourneyStats,            *)
(* sumJourneyStats) and of the metro path finder (findMetroPath).          *)
(*                                                                         *)
(* Times are the values of getRecordDate(record).getTime() in seconds (the *)
(* parser builds timestamps with a resolution of one second).  Amounts are *)
(* written in cents; the IEEE-754 double the parser stores for an amount   *)
(* is given by Number_parseFloat and sums of amounts are double sums.      *)
(***************************************************************************)
EXTENDS Integers, Sequences, FiniteSets, Bags, TLC

(***************************************************************************)
(* Bounds of the model.                                                    *)
(***************************************************************************)
MaxRecords == 3

TripLimit == 2

(***************************************************************************)
(* Program constants.                                                      *)
(***************************************************************************)
DAY_MS == 86400

TEN_HOURS_MS == 36000

PASS_VALID_DAYS == 30

FALLBACK_TARIFF_LABEL == "Creditrans barik"

(***************************************************************************)
(* Optional values (null | value) are sequences of length at most one.     *)
(***************************************************************************)
None == << >>

Some(x) == << x >>

IsSome(o) == Len(o) = 1

Max(a, b) == IF a >= b THEN a ELSE b

Abs(a) == IF a < 0 THEN 0 - a ELSE a

Pow2(n) == 2^n

(***************************************************************************)
(* JavaScript Map: entries in insertion order; set() on an existing key    *)
(* replaces the value in place.                                            *)
(***************************************************************************)
MapHas(m, k) == \E i \in 1..Len(m) : m[i].key = k

MapGet(m, k) ==
  IF MapHas(m, k)
  THEN Some(m[CHOOSE i \in 1..Len(m) : m[i].key = k].value)
  ELSE None

MapSet(m, k, v) ==
  IF MapHas(m, k)
  THEN [i \in 1..Len(m) |-> IF m[i].key = k THEN [key |-> k, value |-> v] ELSE m[i]]
  ELSE Append(m, [key |-> k, value |-> v])

MapKeys(m) == {m[i].key : i \in 1..Len(m)}

(***************************************************************************)
(* TransactionRecord (src/app/lib/pdfParser.ts).  `transaccion` is the set *)
(* of tokens the lower-cased transaction text contains (the code only asks *)
(* text.includes(token)); `time` is getRecordDate(record).getTime();       *)
(* `importe` is the amount in cents.                                       *)
(***************************************************************************)
Tokens == {"recarga", "monedero", "compra", "titulo", "unica", "entrada", "salida"}

Rec(page, cont, time, transaccion, operador, titulo, importe) ==
  [page |-> page, cont |-> cont, time |-> time, transaccion |-> transaccion,
   operador |-> operador, titulo |-> titulo, importe |-> importe]

getRecordDate(record) == record.time

isSingleValidation(record) == "unica" \in record.transaccion

isEntryValidation(record) ==
  "entrada" \in record.transaccion /\ "recarga" \notin record.transaccion

isExitValidation(record) ==
  "salida" \in record.transaccion /\ "recarga" \notin record.transaccion

isRecargaTransaction(record) ==
  IF record.transaccion = {} THEN FALSE
  ELSE IF "recarga" \in record.transaccion THEN TRUE
  ELSE "compra" \in record.transaccion /\ "titulo" \in record.transaccion

isWalletRechargeRecord(record) ==
  "recarga" \in record.transaccion /\ "monedero" \in record.transaccion

isTitleRechargeRecord(record) ==
  IF record.transaccion = {} THEN FALSE
  ELSE LET isExplicitTitleRecharge ==
             "recarga" \in record.transaccion /\ "monedero" \notin record.transaccion
           isCompraTitulo ==
             "compra" \in record.transaccion /\ "titulo" \in record.transaccion
       IN  isExplicitTitleRecharge \/ isCompraTitulo

getRecordKey_WithoutCont(record) == << record.page, record.time >>

\* `${record.page}-${record.cont}-${record.timestamp}`: one string per
\* (page, cont, timestamp) triple.
getRecordKey(record) == << record.page, record.cont, record.time >>

(***************************************************************************)
(* Tariff catalog.  files/tarifas.json is static data outside the modelled *)
(* sources: the catalog below holds the default wallet tariff, the 10-trip *)
(* pass of the documented scenario, a short limited pass and a monthly     *)
(* pass.                                                                   *)
(***************************************************************************)
RAW_TARIFFS ==
  << [code |-> "CRE", name |-> "Creditrans barik", category |-> "coin_purse", limitTravel |-> 0],
     [code |-> "B10", name |-> "Bonobus10", category |-> "bonus", limitTravel |-> 10],
     [code |-> "BON", name |-> "Bono", category |-> "bonus", limitTravel |-> TripLimit],
     [code |-> "MEN", name |-> "Mensual", category |-> "monthly", limitTravel |-> 0] >>

\* normalize('NFD'), strip control characters and accents, collapse
\* whitespace, trim, upper-case, on the title texts of the model.  An accented
\* letter is written with a quote after it and the dash U+2014 as "(em dash)".
UpperCased(text) ==
  CASE text = "Creditrans barik" -> "CREDITRANS BARIK"
    [] text = "CREDITRANS BARIK" -> "CREDITRANS BARIK"
    [] text = "Monedero Creditrans" -> "MONEDERO CREDITRANS"
    [] text = "MONEDERO CREDITRANS" -> "MONEDERO CREDITRANS"
    [] text = "CREDITRANS" -> "CREDITRANS"
    [] text = "Bonobus10" -> "BONOBUS10"
    [] text = "BONOBUS10" -> "BONOBUS10"
    [] text = "Bono" -> "BONO"
    [] text = " bono " -> "BONO"
    [] text = "Mensual" -> "MENSUAL"
    [] text = "Ti'tulo X" -> "TITULO X"
    [] OTHER -> text

\* The title null (`title?: string | null`), written as a text of its own.
NullTitle == "(null)"

\* `!(value && value.trim().length)`.
IsBlank(text) == text \in {NullTitle, "", " "}

normalizeTitleLabel(value) ==
  LET base == IF ~IsBlank(value) THEN value ELSE FALLBACK_TARIFF_LABEL
  IN  UpperCased(base)

inferTariffKind(category, limitTravel) ==
  IF category = "coin_purse" THEN "wallet"
  ELSE IF limitTravel > 0 THEN "limited-pass"
  ELSE IF category \in {"monthly", "youthMonthly"} THEN "unlimited-pass"
  ELSE IF limitTravel > 0 THEN "limited-pass" ELSE "wallet"

TARIFFS ==
  [i \in 1..Len(RAW_TARIFFS) |->
     [code |-> RAW_TARIFFS[i].code,
      name |-> RAW_TARIFFS[i].name,
      normalizedName |-> normalizeTitleLabel(RAW_TARIFFS[i].name),
      category |-> RAW_TARIFFS[i].category,
      limitTravel |-> RAW_TARIFFS[i].limitTravel,
      kind |-> inferTariffKind(RAW_TARIFFS[i].category, RAW_TARIFFS[i].limitTravel)]]

TariffByName(name) ==
  IF \E i \in 1..Len(TARIFFS) : TARIFFS[i].normalizedName = name
  THEN Some(TARIFFS[CHOOSE i \in 1..Len(TARIFFS) :
                      /\ TARIFFS[i].normalizedName = name
                      /\ \A j \in (i + 1)..Len(TARIFFS) : TARIFFS[j].normalizedName # name])
  ELSE None

DEFAULT_TARIFF_NAME == normalizeTitleLabel(FALLBACK_TARIFF_LABEL)

FALLBACK_TARIFF ==
  IF Len(TARIFFS) > 0 THEN TARIFFS[1]
  ELSE [code |-> "DEFAULT", name |-> FALLBACK_TARIFF_LABEL,
        normalizedName |-> DEFAULT_TARIFF_NAME, category |-> "coin_purse",
        limitTravel |-> 0, kind |-> "wallet"]

DEFAULT_TARIFF_LastTariff == TARIFFS[Len(TARIFFS)]

DEFAULT_TARIFF ==
  IF IsSome(TariffByName(DEFAULT_TARIFF_NAME))
  THEN TariffByName(DEFAULT_TARIFF_NAME)[1] ELSE FALLBACK_TARIFF

TariffAlias(normalized) ==
  IF normalized \in {"MONEDERO CREDITRANS", "CREDITRANS", "CREDITRANS BARIK", "(em dash)"}
  THEN Some(DEFAULT_TARIFF_NAME) ELSE None

getTariffInfoFromTitle(title) ==
  LET normalized == normalizeTitleLabel(title)
      alias == TariffAlias(normalized)
      lookup == IF IsSome(alias) THEN alias[1] ELSE normalized
  IN  IF IsSome(TariffByName(lookup)) THEN TariffByName(lookup)[1] ELSE DEFAULT_TARIFF

getPassValidityDays(tariff) ==
  IF tariff.kind = "wallet" THEN None
  ELSE IF tariff.category \in {"monthly", "youthMonthly"} THEN Some(PASS_VALID_DAYS)
  ELSE IF tariff.kind = "limited-pass" THEN Some(PASS_VALID_DAYS)
  ELSE IF tariff.kind = "unlimited-pass" THEN Some(PASS_VALID_DAYS)
  ELSE None

addDays(date, days) == date + days * DAY_MS

(***************************************************************************)
(* Array.prototype.sort is stable: elements that compare equal keep their  *)
(* relative order.  SortAscending is the sort of lines 265 and 345 (by     *)
(* time, ascending).                                                       *)
(***************************************************************************)
\* The position a stable sort gives the element at position i of seq, for
\* the keys key[1..Len(seq)] in ascending order: behind the elements of a
\* smaller key and the earlier elements of the same key.
StableRank(key, i) ==
  Cardinality({j \in DOMAIN key : key[j] < key[i] \/ (key[j] = key[i] /\ j <= i)})

\* The copy of the input left in the order of the caller.
SortAscending_KeepsOrder(recs) == recs

\* (a, b) => getRecordDate(a).getTime() - getRecordDate(b).getTime()
SortAscending(recs) ==
  LET key == [i \in 1..Len(recs) |-> getRecordDate(recs[i])]
  IN  [k \in 1..Len(recs) |-> recs[CHOOSE i \in 1..Len(recs) : StableRank(key, i) = k]]

(***************************************************************************)
(* buildJourneyBlocks (part_004:344-430).  A JourneyBlock keeps the reason *)
(* that is part of its id (`single-<reason>-...`, `viaje-...`).            *)
(***************************************************************************)
Single(record, reason) ==
  [kind |-> "viaje-unico", reason |-> reason, start |-> record, end |-> None,
   durationMinutes |-> None, records |-> << record >>]

pushSingle(journeyList, record, reason) == Append(journeyList, Single(record, reason))

\* Math.round(diff / 60000) for a non-negative diff of whole seconds.
MathRoundMinutes(diff) == (diff + 30) \div 60

Viaje_NoMinimum(entry, exit, diff) ==
  [kind |-> "viaje", reason |-> "viaje", start |-> entry, end |-> Some(exit),
   durationMinutes |-> Some(MathRoundMinutes(diff)),
   records |-> << entry, exit >>]

Viaje(entry, exit, diff) ==
  [kind |-> "viaje", reason |-> "viaje", start |-> entry, end |-> Some(exit),
   durationMinutes |-> Some(Max(1, MathRoundMinutes(diff))),
   records |-> << entry, exit >>]

ExitBranch_WindowExclusive(st, record) ==
  IF IsSome(st.pendingEntry)
  THEN LET pending == st.pendingEntry[1]
           diff == getRecordDate(record) - getRecordDate(pending)
       IN  [journeys |->
              IF diff < 0
              THEN pushSingle(pushSingle(st.journeys, pending, "entrada-desorden"),
                              record, "salida-desorden")
              ELSE IF diff >= TEN_HOURS_MS
              THEN pushSingle(pushSingle(st.journeys, pending, "entrada-10h"),
                              record, "salida-10h")
              ELSE Append(st.journeys, Viaje(pending, record, diff)),
            pendingEntry |-> None]
  ELSE [journeys |-> pushSingle(st.journeys, record, "salida-suelta"),
        pendingEntry |-> st.pendingEntry]

\* The exit branch, lines 386-412.
ExitBranch(st, record) ==
  IF IsSome(st.pendingEntry)
  THEN LET pending == st.pendingEntry[1]
           diff == getRecordDate(record) - getRecordDate(pending)
       IN  [journeys |->
              IF diff < 0
              THEN pushSingle(pushSingle(st.journeys, pending, "entrada-desorden"),
                              record, "salida-desorden")
              ELSE IF diff > TEN_HOURS_MS
              THEN pushSingle(pushSingle(st.journeys, pending, "entrada-10h"),
                              record, "salida-10h")
              ELSE Append(st.journeys, Viaje(pending, record, diff)),
            pendingEntry |-> None]
  ELSE [journeys |-> pushSingle(st.journeys, record, "salida-suelta"),
        pendingEntry |-> st.pendingEntry]

EntryBranch_KeepsOlder(st, record) ==
  IF IsSome(st.pendingEntry)
  THEN [journeys |-> pushSingle(st.journeys, record, "entrada-sin-salida"),
        pendingEntry |-> st.pendingEntry]
  ELSE [journeys |-> st.journeys, pendingEntry |-> Some(record)]

\* The entry branch, lines 378-384.
EntryBranch(st, record) ==
  [journeys |-> IF IsSome(st.pendingEntry)
                THEN pushSingle(st.journeys, st.pendingEntry[1], "entrada-sin-salida")
                ELSE st.journeys,
   pendingEntry |-> Some(record)]

JourneyBody_SingleClearsPending(st, record) ==
  IF isRecargaTransaction(record)
  THEN [journeys |-> Append(st.journeys,
                            [kind |-> "recarga", reason |-> "recarga", start |-> record,
                             end |-> None, durationMinutes |-> None,
                             records |-> << record >>]),
        pendingEntry |-> st.pendingEntry]
  ELSE IF isSingleValidation(record)
  THEN [journeys |-> pushSingle(st.journeys, record, "unica"), pendingEntry |-> None]
  ELSE IF isEntryValidation(record) THEN EntryBranch(st, record)
  ELSE IF isExitValidation(record) THEN ExitBranch(st, record)
  ELSE [journeys |-> Append(st.journeys,
                            [kind |-> "otros", reason |-> "otros", start |-> record,
                             end |-> None, durationMinutes |-> None,
                             records |-> << record >>]),
        pendingEntry |-> st.pendingEntry]

\* The body of sorted.forEach, lines 360-423, on the loop state
\* st = [journeys, pendingEntry].
JourneyBody(st, record) ==
  IF isRecargaTransaction(record)
  THEN [journeys |-> Append(st.journeys,
                            [kind |-> "recarga", reason |-> "recarga", start |-> record,
                             end |-> None, durationMinutes |-> None,
                             records |-> << record >>]),
        pendingEntry |-> st.pendingEntry]
  ELSE IF isSingleValidation(record)
  THEN [journeys |-> pushSingle(st.journeys, record, "unica"),
        pendingEntry |-> st.pendingEntry]
  ELSE IF isEntryValidation(record) THEN EntryBranch(st, record)
  ELSE IF isExitValidation(record) THEN ExitBranch(st, record)
  ELSE [journeys |-> Append(st.journeys,
                            [kind |-> "otros", reason |-> "otros", start |-> record,
                             end |-> None, durationMinutes |-> None,
                             records |-> << record >>]),
        pendingEntry |-> st.pendingEntry]

FlushPending_DropsPending(st) == st.journeys

\* Lines 425-427: the pending entry left at the end of the input.
FlushPending(st) ==
  IF IsSome(st.pendingEntry)
  THEN pushSingle(st.journeys, st.pendingEntry[1], "entrada-final")
  ELSE st.journeys

SortDescending_KeepsOrder(journeyList) == journeyList

\* Line 429: stable sort by start time, descending.
\* Line 429: (a, b) => getRecordDate(b.start).getTime() - getRecordDate(a.start).getTime()
SortDescending(journeyList) ==
  LET key == [i \in 1..Len(journeyList) |-> 0 - getRecordDate(journeyList[i].start)]
  IN  [k \in 1..Len(journeyList) |->
         journeyList[CHOOSE i \in 1..Len(journeyList) : StableRank(key, i) = k]]

JourneyStart == [journeys |-> << >>, pendingEntry |-> None]

RECURSIVE JourneyFold(_, _)
JourneyFold(sortedRecs, n) ==
  IF n = 0 THEN JourneyStart
  ELSE JourneyBody(JourneyFold(sortedRecs, n - 1), sortedRecs[n])

buildJourneyBlocks(recs) ==
  LET sortedRecs == SortAscending(recs)
  IN  SortDescending(FlushPending(JourneyFold(sortedRecs, Len(sortedRecs))))

(***************************************************************************)
(* buildFareInsights (part_004:264-342).  The loop state is                *)
(* st = [insights, passStates], both JavaScript Maps.                      *)
(***************************************************************************)
snapshotPassState(state) ==
  [tariff |-> state.tariff, kind |-> state.kind, totalTrips |-> state.totalTrips,
   remainingTrips |-> state.remainingTrips, purchaseAmount |-> state.purchaseAmount,
   purchaseDate |-> state.purchaseDate, validDays |-> state.validDays,
   expiresAt |-> state.expiresAt, purchaseRecordKey |-> state.purchaseRecordKey]

Insight(usageKind, tariff, passContext, limitedContext, savingsAmount, daysRemaining) ==
  [usageKind |-> usageKind, tariff |-> tariff, passContext |-> passContext,
   limitedContext |-> limitedContext, savingsAmount |-> savingsAmount,
   daysRemaining |-> daysRemaining]

NewPassState_NoIgnoreFlag(record, tariff) ==
  LET totalTrips == IF tariff.kind = "limited-pass" /\ tariff.limitTravel # 0
                    THEN Some(tariff.limitTravel) ELSE None
      validDays == getPassValidityDays(tariff)
      purchaseDate == getRecordDate(record)
  IN  [tariff |-> tariff,
       kind |-> IF tariff.kind = "unlimited-pass" THEN "unlimited-pass" ELSE "limited-pass",
       totalTrips |-> totalTrips,
       remainingTrips |-> totalTrips,
       purchaseAmount |-> record.importe,
       purchaseDate |-> purchaseDate,
       validDays |-> validDays,
       expiresAt |-> IF IsSome(validDays) /\ validDays[1] # 0
                     THEN Some(addDays(purchaseDate, validDays[1])) ELSE None,
       purchaseRecordKey |-> getRecordKey(record),
       ignoreNextEntry |-> FALSE]

\* Lines 280-294: the pass state a title purchase creates.
NewPassState(record, tariff) ==
  LET totalTrips == IF tariff.kind = "limited-pass" /\ tariff.limitTravel # 0
                    THEN Some(tariff.limitTravel) ELSE None
      validDays == getPassValidityDays(tariff)
      purchaseDate == getRecordDate(record)
  IN  [tariff |-> tariff,
       kind |-> IF tariff.kind = "unlimited-pass" THEN "unlimited-pass" ELSE "limited-pass",
       totalTrips |-> totalTrips,
       remainingTrips |-> totalTrips,
       purchaseAmount |-> record.importe,
       purchaseDate |-> purchaseDate,
       validDays |-> validDays,
       expiresAt |-> IF IsSome(validDays) /\ validDays[1] # 0
                     THEN Some(addDays(purchaseDate, validDays[1])) ELSE None,
       purchaseRecordKey |-> getRecordKey(record),
       ignoreNextEntry |-> (tariff.kind = "limited-pass")]

ConsumeTrip_AlwaysDecrements(pass, isEntry) ==
  IF isEntry /\ IsSome(pass.remainingTrips)
  THEN [pass EXCEPT !.remainingTrips = Some(Max(pass.remainingTrips[1] - 1, 0))]
  ELSE pass

\* Lines 316-322: the effect of a ride on the live limited pass.
ConsumeTrip_ExitConsumes(pass, isEntry) ==
  IF IsSome(pass.remainingTrips)
  THEN IF pass.ignoreNextEntry
       THEN [pass EXCEPT !.ignoreNextEntry = FALSE]
       ELSE [pass EXCEPT !.remainingTrips = Some(Max(pass.remainingTrips[1] - 1, 0))]
  ELSE pass

ConsumeTrip(pass, isEntry) ==
  IF isEntry /\ IsSome(pass.remainingTrips)
  THEN IF pass.ignoreNextEntry
       THEN [pass EXCEPT !.ignoreNextEntry = FALSE]
       ELSE [pass EXCEPT !.remainingTrips = Some(Max(pass.remainingTrips[1] - 1, 0))]
  ELSE pass

\* Math.ceil(a / b) for b > 0.
CeilDiv(a, b) == 0 - ((0 - a) \div b)

RideBranch_ExpiredPassDropped(st, record, tariff) ==
  LET recordKey == getRecordKey(record)
      recordDate == getRecordDate(record)
      stored == MapGet(st.passStates, tariff.normalizedName)
      found == IF IsSome(stored) /\ IsSome(stored[1].expiresAt)
                  /\ stored[1].expiresAt[1] < recordDate
               THEN None ELSE stored
      isEntry == isEntryValidation(record) \/ isSingleValidation(record)
      rideAmount == Some(Abs(record.importe))
      rideSavings == IF IsSome(found) /\ isEntry THEN rideAmount ELSE None
      daysRemaining ==
        IF IsSome(found) /\ IsSome(found[1].expiresAt)
        THEN Some(Max(CeilDiv(found[1].expiresAt[1] - recordDate, DAY_MS), 0))
        ELSE None
      limited == IsSome(found) /\ found[1].kind = "limited-pass"
      currentPass == IF limited THEN Some(ConsumeTrip(found[1], isEntry)) ELSE found
      limitedContext ==
        IF limited
        THEN Some([remainingTrips |-> currentPass[1].remainingTrips,
                   totalTrips |-> currentPass[1].totalTrips,
                   pricePerTrip |->
                     IF IsSome(currentPass[1].totalTrips) /\ currentPass[1].totalTrips[1] > 0
                     THEN Some([amount |-> currentPass[1].purchaseAmount,
                                trips |-> currentPass[1].totalTrips[1]])
                     ELSE None,
                   savingsAmount |-> rideSavings])
        ELSE None
  IN  [insights |->
         MapSet(st.insights, recordKey,
                Insight("ride", tariff,
                        IF IsSome(currentPass) THEN Some(snapshotPassState(currentPass[1]))
                        ELSE None,
                        limitedContext, rideSavings, daysRemaining)),
       passStates |->
         IF limited THEN MapSet(st.passStates, tariff.normalizedName, currentPass[1])
         ELSE st.passStates]

RideBranch_SavingsWithoutPass(st, record, tariff) ==
  LET recordKey == getRecordKey(record)
      recordDate == getRecordDate(record)
      found == MapGet(st.passStates, tariff.normalizedName)
      isEntry == isEntryValidation(record) \/ isSingleValidation(record)
      rideAmount == Some(Abs(record.importe))
      rideSavings == IF isEntry THEN rideAmount ELSE None
      daysRemaining ==
        IF IsSome(found) /\ IsSome(found[1].expiresAt)
        THEN Some(Max(CeilDiv(found[1].expiresAt[1] - recordDate, DAY_MS), 0))
        ELSE None
      limited == IsSome(found) /\ found[1].kind = "limited-pass"
      currentPass == IF limited THEN Some(ConsumeTrip(found[1], isEntry)) ELSE found
      limitedContext ==
        IF limited
        THEN Some([remainingTrips |-> currentPass[1].remainingTrips,
                   totalTrips |-> currentPass[1].totalTrips,
                   pricePerTrip |->
                     IF IsSome(currentPass[1].totalTrips) /\ currentPass[1].totalTrips[1] > 0
                     THEN Some([amount |-> currentPass[1].purchaseAmount,
                                trips |-> currentPass[1].totalTrips[1]])
                     ELSE None,
                   savingsAmount |-> rideSavings])
        ELSE None
  IN  [insights |->
         MapSet(st.insights, recordKey,
                Insight("ride", tariff,
                        IF IsSome(currentPass) THEN Some(snapshotPassState(currentPass[1]))
                        ELSE None,
                        limitedContext, rideSavings, daysRemaining)),
       passStates |->
         IF limited THEN MapSet(st.passStates, tariff.normalizedName, currentPass[1])
         ELSE st.passStates]

RideBranch_SavingsOnExit(st, record, tariff) ==
  LET recordKey == getRecordKey(record)
      recordDate == getRecordDate(record)
      found == MapGet(st.passStates, tariff.normalizedName)
      isEntry == isEntryValidation(record) \/ isSingleValidation(record)
      rideAmount == Some(Abs(record.importe))
      rideSavings == IF IsSome(found) THEN rideAmount ELSE None
      daysRemaining ==
        IF IsSome(found) /\ IsSome(found[1].expiresAt)
        THEN Some(Max(CeilDiv(found[1].expiresAt[1] - recordDate, DAY_MS), 0))
        ELSE None
      limited == IsSome(found) /\ found[1].kind = "limited-pass"
      currentPass == IF limited THEN Some(ConsumeTrip(found[1], isEntry)) ELSE found
      limitedContext ==
        IF limited
        THEN Some([remainingTrips |-> currentPass[1].remainingTrips,
                   totalTrips |-> currentPass[1].totalTrips,
                   pricePerTrip |->
                     IF IsSome(currentPass[1].totalTrips) /\ currentPass[1].totalTrips[1] > 0
                     THEN Some([amount |-> currentPass[1].purchaseAmount,
                                trips |-> currentPass[1].totalTrips[1]])
                     ELSE None,
                   savingsAmount |-> rideSavings])
        ELSE None
  IN  [insights |->
         MapSet(st.insights, recordKey,
                Insight("ride", tariff,
                        IF IsSome(currentPass) THEN Some(snapshotPassState(currentPass[1]))
                        ELSE None,
                        limitedContext, rideSavings, daysRemaining)),
       passStates |->
         IF limited THEN MapSet(st.passStates, tariff.normalizedName, currentPass[1])
         ELSE st.passStates]

RideBranch_AnyPass(st, record, tariff) ==
  LET recordKey == getRecordKey(record)
      recordDate == getRecordDate(record)
      passKey == IF Len(st.passStates) > 0 THEN st.passStates[1].key
                 ELSE tariff.normalizedName
      found == MapGet(st.passStates, passKey)
      isEntry == isEntryValidation(record) \/ isSingleValidation(record)
      rideAmount == Some(Abs(record.importe))
      rideSavings == IF IsSome(found) /\ isEntry THEN rideAmount ELSE None
      daysRemaining ==
        IF IsSome(found) /\ IsSome(found[1].expiresAt)
        THEN Some(Max(CeilDiv(found[1].expiresAt[1] - recordDate, DAY_MS), 0))
        ELSE None
      limited == IsSome(found) /\ found[1].kind = "limited-pass"
      currentPass == IF limited THEN Some(ConsumeTrip(found[1], isEntry)) ELSE found
      limitedContext ==
        IF limited
        THEN Some([remainingTrips |-> currentPass[1].remainingTrips,
                   totalTrips |-> currentPass[1].totalTrips,
                   pricePerTrip |->
                     IF IsSome(currentPass[1].totalTrips) /\ currentPass[1].totalTrips[1] > 0
                     THEN Some([amount |-> currentPass[1].purchaseAmount,
                                trips |-> currentPass[1].totalTrips[1]])
                     ELSE None,
                   savingsAmount |-> rideSavings])
        ELSE None
  IN  [insights |->
         MapSet(st.insights, recordKey,
                Insight("ride", tariff,
                        IF IsSome(currentPass) THEN Some(snapshotPassState(currentPass[1]))
                        ELSE None,
                        limitedContext, rideSavings, daysRemaining)),
       passStates |->
         IF limited THEN MapSet(st.passStates, passKey, currentPass[1])
         ELSE st.passStates]

\* Lines 304-338: a record that is neither a wallet recharge nor a title
\* purchase of a pass tariff.
RideBranch(st, record, tariff) ==
  LET recordKey == getRecordKey(record)
      recordDate == getRecordDate(record)
      found == MapGet(st.passStates, tariff.normalizedName)
      isEntry == isEntryValidation(record) \/ isSingleValidation(record)
      rideAmount == Some(Abs(record.importe))
      rideSavings == IF IsSome(found) /\ isEntry THEN rideAmount ELSE None
      daysRemaining ==
        IF IsSome(found) /\ IsSome(found[1].expiresAt)
        THEN Some(Max(CeilDiv(found[1].expiresAt[1] - recordDate, DAY_MS), 0))
        ELSE None
      limited == IsSome(found) /\ found[1].kind = "limited-pass"
      currentPass == IF limited THEN Some(ConsumeTrip(found[1], isEntry)) ELSE found
      limitedContext ==
        IF limited
        THEN Some([remainingTrips |-> currentPass[1].remainingTrips,
                   totalTrips |-> currentPass[1].totalTrips,
                   pricePerTrip |->
                     IF IsSome(currentPass[1].totalTrips) /\ currentPass[1].totalTrips[1] > 0
                     THEN Some([amount |-> currentPass[1].purchaseAmount,
                                trips |-> currentPass[1].totalTrips[1]])
                     ELSE None,
                   savingsAmount |-> rideSavings])
        ELSE None
  IN  [insights |->
         MapSet(st.insights, recordKey,
                Insight("ride", tariff,
                        IF IsSome(currentPass) THEN Some(snapshotPassState(currentPass[1]))
                        ELSE None,
                        limitedContext, rideSavings, daysRemaining)),
       passStates |->
         IF limited THEN MapSet(st.passStates, tariff.normalizedName, currentPass[1])
         ELSE st.passStates]

FareBody_KeepsOldPass(st, record) ==
  LET recordKey == getRecordKey(record)
      tariff == getTariffInfoFromTitle(record.titulo)
  IN  IF isWalletRechargeRecord(record)
      THEN [insights |-> MapSet(st.insights, recordKey,
                                Insight("wallet-recharge", tariff, None, None, None, None)),
            passStates |-> st.passStates]
      ELSE IF isTitleRechargeRecord(record) /\ tariff.kind # "wallet"
      THEN LET found == MapGet(st.passStates, tariff.normalizedName)
               passState == IF IsSome(found) THEN found[1] ELSE NewPassState(record, tariff)
           IN  [insights |-> MapSet(st.insights, recordKey,
                                    Insight("title-recharge", tariff,
                                            Some(snapshotPassState(passState)),
                                            None, None, None)),
                passStates |-> MapSet(st.passStates, tariff.normalizedName, passState)]
      ELSE RideBranch(st, record, tariff)

\* The body of sorted.forEach, lines 269-339.
FareBody(st, record) ==
  LET recordKey == getRecordKey(record)
      tariff == getTariffInfoFromTitle(record.titulo)
  IN  IF isWalletRechargeRecord(record)
      THEN [insights |-> MapSet(st.insights, recordKey,
                                Insight("wallet-recharge", tariff, None, None, None, None)),
            passStates |-> st.passStates]
      ELSE IF isTitleRechargeRecord(record) /\ tariff.kind # "wallet"
      THEN LET passState == NewPassState(record, tariff)
           IN  [insights |-> MapSet(st.insights, recordKey,
                                    Insight("title-recharge", tariff,
                                            Some(snapshotPassState(passState)),
                                            None, None, None)),
                passStates |-> MapSet(st.passStates, tariff.normalizedName, passState)]
      ELSE RideBranch(st, record, tariff)

FareStart == [insights |-> << >>, passStates |-> << >>]

RECURSIVE FareFold(_, _)
FareFold(sortedRecs, n) ==
  IF n = 0 THEN FareStart
  ELSE FareBody(FareFold(sortedRecs, n - 1), sortedRecs[n])

buildFareInsights(recs) ==
  LET sortedRecs == SortAscending(recs)
  IN  FareFold(sortedRecs, Len(sortedRecs)).insights

(***************************************************************************)
(* JavaScript numbers.  Amounts are IEEE-754 doubles; the sums of          *)
(* computeJourneyStats and sumJourneyStats are double additions (round to  *)
(* nearest, ties to even).  A double x with x = 0 or 0.5 <= x < 256 is     *)
(* held exactly as the integer x * 2^53, in two limbs << hi, lo >> of 30   *)
(* bits (TLC integers have 32 bits).                                       *)
(***************************************************************************)
LimbBase == Pow2(30)

DblZero == << 0, 0 >>

\* n binary digits of r / d (0 <= r < d < 2^16), with the remainder, 15 digits
\* at a time.
RECURSIVE LongDiv(_, _, _)
LongDiv(r, d, n) ==
  IF n <= 15 THEN [q |-> (r * 2^n) \div d, r |-> (r * 2^n) % d]
  ELSE LET p == LongDiv(r, d, n - 15)
       IN  [q |-> p.q * 2^15 + (p.r * 2^15) \div d, r |-> (p.r * 2^15) % d]

\* x * 2^k in limbs.
RECURSIVE DblShift(_, _)
DblShift(x, k) ==
  IF k = 0 THEN x
  ELSE LET y == DblShift(x, k - 1)
       IN  << 2 * y[1] + (2 * y[2]) \div LimbBase, (2 * y[2]) % LimbBase >>

\* The binary exponent e of cents / 100: 2^e <= cents / 100 < 2^(e + 1),
\* for cents >= 50.
RECURSIVE BinExp(_)
BinExp(cents) == IF cents < 100 THEN 0 - 1 ELSE 1 + BinExp(cents \div 2)

\* Number.parseFloat of the decimal text of an amount of `cents` hundredths
\* (pdfParser.ts:350-357): the double nearest to cents / 100.
Number_parseFloat(cents) ==
  IF cents = 0 THEN DblZero
  ELSE LET e == BinExp(cents)
           num == IF e < 0 THEN 2 * cents ELSE cents
           den == IF e < 0 THEN 100 ELSE 100 * Pow2(e)
           high == LongDiv(num - den, den, 22)
           low == LongDiv(high.r, den, 30)
           up == IF 2 * low.r > den \/ (2 * low.r = den /\ low.q % 2 = 1) THEN 1 ELSE 0
           lo == low.q + up
           m == << Pow2(22) + high.q + lo \div LimbBase, lo % LimbBase >>
       IN  DblShift(m, e + 1)

\* The number of low bits of the exact sum that do not fit in 53 bits.
RECURSIVE ExtraBits(_)
ExtraBits(hi) == IF hi < Pow2(23) THEN 0 ELSE 1 + ExtraBits(hi \div 2)

\* a + b of two doubles: the exact sum rounded to 53 significant bits.
DblAdd(a, b) ==
  LET lo0 == a[2] + b[2]
      hi1 == a[1] + b[1] + lo0 \div LimbBase
      lo1 == lo0 % LimbBase
      d == ExtraBits(hi1)
      q == Pow2(d)
      r == lo1 % q
      up == d > 0 /\ (2 * r > q \/ (2 * r = q /\ (lo1 \div q) % 2 = 1))
      lo2 == lo1 - r + (IF up THEN q ELSE 0)
  IN  << hi1 + lo2 \div LimbBase, lo2 % LimbBase >>

(***************************************************************************)
(* computeJourneyStats and sumJourneyStats (part_004:432-491).             *)
(***************************************************************************)
EMPTY_JOURNEY_STATS ==
  [rides |-> 0, walletRecharges |-> 0, titlePurchases |-> 0,
   savings |-> DblZero, spent |-> DblZero, travelMinutes |-> 0]

createJourneyStats == EMPTY_JOURNEY_STATS

\* Math.abs(record.importe) as a double.
AbsAmount(cents) == Number_parseFloat(Abs(cents))

\* Lines 465-473, for one record of a ride journey.
StatsRecord_SpentUnderPass(stats, record, fareInsights) ==
  LET insight == MapGet(fareInsights, getRecordKey(record))
      hasSavings == IsSome(insight) /\ IsSome(insight[1].savingsAmount)
      withSavings ==
        IF hasSavings
        THEN [stats EXCEPT !.savings =
                DblAdd(stats.savings, Number_parseFloat(Max(0, insight[1].savingsAmount[1])))]
        ELSE stats
  IN  [withSavings EXCEPT !.spent = DblAdd(withSavings.spent, AbsAmount(record.importe))]

StatsRecord(stats, record, fareInsights) ==
  LET insight == MapGet(fareInsights, getRecordKey(record))
      hasSavings == IsSome(insight) /\ IsSome(insight[1].savingsAmount)
      hasPass == IsSome(insight) /\ IsSome(insight[1].passContext)
      withSavings ==
        IF hasSavings
        THEN [stats EXCEPT !.savings =
                DblAdd(stats.savings, Number_parseFloat(Max(0, insight[1].savingsAmount[1])))]
        ELSE stats
  IN  IF ~hasPass
      THEN [withSavings EXCEPT !.spent = DblAdd(withSavings.spent, AbsAmount(record.importe))]
      ELSE withSavings

RECURSIVE StatsRecords(_, _, _, _)
StatsRecords(stats, recs, n, fareInsights) ==
  IF n = 0 THEN stats
  ELSE StatsRecord(StatsRecords(stats, recs, n - 1, fareInsights), recs[n], fareInsights)

StatsJourney_PurchaseByText(stats, journey, fareInsights) ==
  IF journey.kind = "recarga"
  THEN LET fare == MapGet(fareInsights, getRecordKey(journey.start))
           counted ==
             IF isTitleRechargeRecord(journey.start)
             THEN [stats EXCEPT !.titlePurchases = stats.titlePurchases + 1]
             ELSE [stats EXCEPT !.walletRecharges = stats.walletRecharges + 1]
       IN  [counted EXCEPT !.spent = DblAdd(counted.spent, AbsAmount(journey.start.importe))]
  ELSE IF journey.kind \in {"viaje", "viaje-unico"}
  THEN LET counted == [stats EXCEPT !.rides = stats.rides + 1]
           timed ==
             IF journey.kind = "viaje" /\ IsSome(journey.durationMinutes)
             THEN [counted EXCEPT !.travelMinutes =
                     counted.travelMinutes + journey.durationMinutes[1]]
             ELSE counted
       IN  StatsRecords(timed, journey.records, Len(journey.records), fareInsights)
  ELSE stats

StatsJourney_RechargeNotSpent(stats, journey, fareInsights) ==
  IF journey.kind = "recarga"
  THEN LET fare == MapGet(fareInsights, getRecordKey(journey.start))
       IN  IF IsSome(fare) /\ fare[1].usageKind = "title-recharge"
           THEN [stats EXCEPT !.titlePurchases = stats.titlePurchases + 1]
           ELSE [stats EXCEPT !.walletRecharges = stats.walletRecharges + 1]
  ELSE IF journey.kind \in {"viaje", "viaje-unico"}
  THEN LET counted == [stats EXCEPT !.rides = stats.rides + 1]
           timed ==
             IF journey.kind = "viaje" /\ IsSome(journey.durationMinutes)
             THEN [counted EXCEPT !.travelMinutes =
                     counted.travelMinutes + journey.durationMinutes[1]]
             ELSE counted
       IN  StatsRecords(timed, journey.records, Len(journey.records), fareInsights)
  ELSE stats

\* Lines 447-475, for one journey.
StatsJourney(stats, journey, fareInsights) ==
  IF journey.kind = "recarga"
  THEN LET fare == MapGet(fareInsights, getRecordKey(journey.start))
           counted ==
             IF IsSome(fare) /\ fare[1].usageKind = "title-recharge"
             THEN [stats EXCEPT !.titlePurchases = stats.titlePurchases + 1]
             ELSE [stats EXCEPT !.walletRecharges = stats.walletRecharges + 1]
       IN  [counted EXCEPT !.spent = DblAdd(counted.spent, AbsAmount(journey.start.importe))]
  ELSE IF journey.kind \in {"viaje", "viaje-unico"}
  THEN LET counted == [stats EXCEPT !.rides = stats.rides + 1]
           timed ==
             IF journey.kind = "viaje" /\ IsSome(journey.durationMinutes)
             THEN [counted EXCEPT !.travelMinutes =
                     counted.travelMinutes + journey.durationMinutes[1]]
             ELSE counted
       IN  StatsRecords(timed, journey.records, Len(journey.records), fareInsights)
  ELSE stats

RECURSIVE StatsFold(_, _, _)
StatsFold(journeyList, n, fareInsights) ==
  IF n = 0 THEN createJourneyStats
  ELSE StatsJourney(StatsFold(journeyList, n - 1, fareInsights), journeyList[n], fareInsights)

computeJourneyStats(journeyList, fareInsights) ==
  StatsFold(journeyList, Len(journeyList), fareInsights)

AddStats(acc, stats) ==
  [rides |-> acc.rides + stats.rides,
   walletRecharges |-> acc.walletRecharges + stats.walletRecharges,
   titlePurchases |-> acc.titlePurchases + stats.titlePurchases,
   savings |-> DblAdd(acc.savings, stats.savings),
   spent |-> DblAdd(acc.spent, stats.spent),
   travelMinutes |-> acc.travelMinutes + stats.travelMinutes]

RECURSIVE SumFold(_, _)
SumFold(statsList, n) ==
  IF n = 0 THEN createJourneyStats
  ELSE AddStats(SumFold(statsList, n - 1), statsList[n])

sumJourneyStats(statsList) == SumFold(statsList, Len(statsList))

\* The journeys of journeyList at the positions of `part`, in list order
\* (Array.prototype.filter; the day groups of part_003:584-618 keep the
\* order of the journey list).
RECURSIVE SelectPart(_, _, _)
SelectPart(journeyList, n, part) ==
  IF n = 0 THEN << >>
  ELSE IF n \in part
       THEN Append(SelectPart(journeyList, n - 1, part), journeyList[n])
       ELSE SelectPart(journeyList, n - 1, part)

(***************************************************************************)
(* Station graph and findMetroPath (MetroDiagram.tsx:517-591, 679-794).    *)
(* files/lineasmetro.json is static data outside the modelled sources: the *)
(* layout below is a shortened Metro Bilbao (two western branches joining  *)
(* the trunk at SIN, line 2 continuing after the trunk, line 3 attached at *)
(* Casco Viejo), with one duplicated row.                                  *)
(***************************************************************************)
St(line, code, weight, casco) ==
  [line |-> line, code |-> code, weight |-> weight, casco |-> casco]

RAW_STATIONS ==
  << St("L1", "PLE", 1, FALSE), St("L1", "SOP", 2, FALSE), St("L1", "LUT", 3, FALSE),
     St("T", "SIN", 4, FALSE), St("T", "DEU", 5, FALSE), St("T", "ABA", 6, FALSE),
     St("T", "CAV", 7, TRUE), St("T", "BOL", 8, FALSE), St("T", "ETX", 9, FALSE),
     St("T", "ETX", 9, FALSE),
     St("L2", "KAB", 1, FALSE), St("L2", "SES", 2, FALSE), St("L2", "GUR", 3, FALSE),
     St("L2", "ARZ", 10, FALSE), St("L2", "BAS", 11, FALSE),
     St("L3", "MAT", 5, FALSE), St("L3", "URI", 6, FALSE), St("L3", "ZAZ", 7, TRUE),
     St("L3", "TXU", 8, FALSE), St("L3", "KUK", 9, FALSE) >>

\* Lines 570-582: the rows of one line, without repeated (line, code) rows, in
\* the order of the data.
GroupOfLine(rows, line) ==
  LET kept == {n \in 1..Len(rows) :
                 /\ rows[n].line = line
                 /\ ~\E i \in 1..(n - 1) :
                       /\ rows[i].line = line
                       /\ rows[i].code = rows[n].code}
  IN  [k \in 1..Cardinality(kept) |->
         rows[CHOOSE n \in kept : Cardinality({m \in kept : m <= n}) = k]]

\* Lines 584-586: (a, b) => a.weight - b.weight.
SortByWeight(stations) ==
  LET key == [i \in 1..Len(stations) |-> stations[i].weight]
  IN  [k \in 1..Len(stations) |->
         stations[CHOOSE i \in 1..Len(stations) : StableRank(key, i) = k]]

GROUPED_BY_LINE(line) == SortByWeight(GroupOfLine(RAW_STATIONS, line))

L1_STATIONS == GROUPED_BY_LINE("L1")

L2_STATIONS == GROUPED_BY_LINE("L2")

L3_STATIONS == GROUPED_BY_LINE("L3")

TRUNK_STATIONS == GROUPED_BY_LINE("T")

\* stations[0] and stations[stations.length - 1], undefined on an empty array.
FirstOf(stations) == IF stations = << >> THEN None ELSE Some(stations[1])

LastOf(stations) == IF stations = << >> THEN None ELSE Some(stations[Len(stations)])

TRUNK_START == FirstOf(TRUNK_STATIONS)

TRUNK_END == LastOf(TRUNK_STATIONS)

\* Lines 679-680: TRUNK_START?.weight ?? Infinity, TRUNK_END?.weight ?? -Infinity.
LINE2_BEFORE_TRUNK ==
  SelectSeq(L2_STATIONS,
            LAMBDA station : ~IsSome(TRUNK_START) \/ station.weight < TRUNK_START[1].weight)

LINE2_AFTER_TRUNK ==
  SelectSeq(L2_STATIONS,
            LAMBDA station : ~IsSome(TRUNK_END) \/ station.weight > TRUNK_END[1].weight)

\* Lines 616-630: the station named Casco Viejo / Zazpikaleak, or the middle
\* one.
PivotPoint(stations) ==
  IF stations = << >> THEN None
  ELSE IF \E i \in 1..Len(stations) : stations[i].casco
  THEN Some(stations[CHOOSE i \in 1..Len(stations) :
                       /\ stations[i].casco
                       /\ \A j \in 1..(i - 1) : ~stations[j].casco])
  ELSE Some(stations[Len(stations) \div 2 + 1])

L3_PIVOT_POINT == PivotPoint(L3_STATIONS)

\* Line 746: L3_PIVOT_POINT?.code ?? null.
L3_PIVOT_CODE == IF IsSome(L3_PIVOT_POINT) THEN Some(L3_PIVOT_POINT[1].code) ELSE None

ALL_POSITIONED_STATIONS ==
  L1_STATIONS \o TRUNK_STATIONS \o LINE2_BEFORE_TRUNK \o LINE2_AFTER_TRUNK \o L3_STATIONS

\* The keys of a Map filled from the codes of an array of stations.
KeysByCode(stations) == {stations[i].code : i \in 1..Len(stations)}

STATION_BY_CODE == KeysByCode(ALL_POSITIONED_STATIONS)

\* The elements of seq, each at its first position only (the insertion order
\* of a Set or of the keys of a Map).
Dedup(seq) ==
  LET firsts == {i \in 1..Len(seq) : \A j \in 1..(i - 1) : seq[j] # seq[i]}
  IN  [k \in 1..Cardinality(firsts) |->
         seq[CHOOSE i \in firsts : Cardinality({j \in firsts : j <= i}) = k]]

addEdge_OneWay(from, to) ==
  IF from = "" \/ to = "" \/ from = to THEN << >>
  ELSE IF ~({from, to} \subseteq STATION_BY_CODE) THEN << >>
  ELSE << << from, to >> >>

\* Lines 714-725: the additions one call makes to the neighbour sets, as
\* << code, neighbour >> in the order of the code (both nodes exist after it,
\* `from` first); an absent endpoint is "".
addEdge(from, to) ==
  IF from = "" \/ to = "" \/ from = to THEN << >>
  ELSE IF ~({from, to} \subseteq STATION_BY_CODE) THEN << >>
  ELSE << << from, to >>, << to, from >> >>

\* Lines 728-732: the additions of the first n stations of a sequence.
RECURSIVE connectLoop(_, _)
connectLoop(stations, n) ==
  IF n <= 1 THEN << >>
  ELSE connectLoop(stations, n - 1) \o addEdge(stations[n - 1].code, stations[n].code)

\* Lines 727-733.
connectSequence(stations) == connectLoop(stations, Len(stations))

\* stations[0]?.code and stations[stations.length - 1]?.code.
FirstCode(stations) == IF stations = << >> THEN "" ELSE stations[1].code

LastCode(stations) == IF stations = << >> THEN "" ELSE stations[Len(stations)].code

\* Line 745: POSITIONED_TRUNK.find((station) => station.code === 'CAV').
FindCode(stations, code) ==
  IF \E i \in 1..Len(stations) : stations[i].code = code
  THEN Some(stations[CHOOSE i \in 1..Len(stations) :
                       /\ stations[i].code = code
                       /\ \A j \in 1..(i - 1) : stations[j].code # code])
  ELSE None

TRUNK_CASCO == FindCode(TRUNK_STATIONS, "CAV")

\* Lines 735-749: all additions, in the order the module makes them.
GRAPH_ADDITIONS ==
  connectSequence(L1_STATIONS)
    \o connectSequence(TRUNK_STATIONS)
    \o connectSequence(LINE2_BEFORE_TRUNK)
    \o connectSequence(LINE2_AFTER_TRUNK)
    \o connectSequence(L3_STATIONS)
    \o addEdge(LastCode(L1_STATIONS), FirstCode(TRUNK_STATIONS))
    \o addEdge(LastCode(LINE2_BEFORE_TRUNK), FirstCode(TRUNK_STATIONS))
    \o addEdge(LastCode(TRUNK_STATIONS), FirstCode(LINE2_AFTER_TRUNK))
    \o (IF IsSome(TRUNK_CASCO) /\ IsSome(L3_PIVOT_CODE)
        THEN addEdge(L3_PIVOT_CODE[1], TRUNK_CASCO[1].code)
        ELSE << >>)

\* The Map from a code to the Set of its neighbours that a sequence of
\* additions leaves, keys and neighbours in insertion order.
GraphOf(additions) ==
  LET codes == Dedup([k \in 1..Len(additions) |-> additions[k][1]])
      NeighborsOf(code) ==
        LET own == SelectSeq(additions, LAMBDA e : e[1] = code)
        IN  Dedup([k \in 1..Len(own) |-> own[k][2]])
  IN  [i \in 1..Len(codes) |-> [key |-> codes[i], value |-> NeighborsOf(codes[i])]]

\* Line 703, after lines 735-749.
STATION_GRAPH == GraphOf(GRAPH_ADDITIONS)

\* Lines 785-786: STATION_GRAPH.get(current.code), nothing to visit when it
\* is undefined.
OrNoNeighbors(found) == IF IsSome(found) THEN found[1] ELSE << >>

Neighbors(code) == OrNoNeighbors(MapGet(STATION_GRAPH, code))

\* The neighbour loop with each queued path restarted at the station being
\* expanded, so that the stations before it are lost.
RECURSIVE VisitNeighbors_ForgetsPath(_, _, _, _)
VisitNeighbors_ForgetsPath(search, current, neighbors, n) ==
  IF n = 0 THEN search
  ELSE LET prev == VisitNeighbors_ForgetsPath(search, current, neighbors, n - 1)
           neighbor == neighbors[n]
       IN  IF neighbor \notin prev.visited
           THEN [prev EXCEPT !.visited = prev.visited \cup {neighbor},
                             !.queue = Append(prev.queue,
                                              [code |-> neighbor,
                                               path |-> << current.code, neighbor >>])]
           ELSE prev

\* Lines 786-791: the neighbours of `current` not yet visited are marked and
\* queued, in insertion order.
RECURSIVE VisitNeighbors(_, _, _, _)
VisitNeighbors(search, current, neighbors, n) ==
  IF n = 0 THEN search
  ELSE LET prev == VisitNeighbors(search, current, neighbors, n - 1)
           neighbor == neighbors[n]
       IN  IF neighbor \notin prev.visited
           THEN [prev EXCEPT !.visited = prev.visited \cup {neighbor},
                             !.queue = Append(prev.queue,
                                              [code |-> neighbor,
                                               path |-> Append(current.path, neighbor)])]
           ELSE prev

\* Lines 787-791: the for loop over the neighbours.
VisitAll(search, current, neighbors) ==
  VisitNeighbors(search, current, neighbors, Len(neighbors))

\* One iteration of the while loop, lines 780-792, on
\* search = [visited, queue, result].
BfsIteration(search, to) ==
  LET current == Head(search.queue)
      rest == [search EXCEPT !.queue = Tail(search.queue)]
  IN  IF current.code = to THEN [rest EXCEPT !.result = Some(current.path)]
      ELSE VisitAll(rest, current, Neighbors(current.code))

BfsStart_EitherKnown(from, to) ==
  IF from = "" \/ to = ""
  THEN [visited |-> {}, queue |-> << >>, result |-> Some(<< >>)]
  ELSE IF from \notin STATION_BY_CODE \/ to \notin STATION_BY_CODE
  THEN [visited |-> {}, queue |-> << >>,
        result |-> Some(IF from \in STATION_BY_CODE THEN << from >>
                        ELSE IF to \in STATION_BY_CODE THEN << to >> ELSE << >>)]
  ELSE IF from = to
  THEN [visited |-> {}, queue |-> << >>, result |-> Some(<< from >>)]
  ELSE [visited |-> {from}, queue |-> << [code |-> from, path |-> << from >>] >>,
        result |-> None]

\* Lines 769-779: the early returns, or the start of the search.
BfsStart(from, to) ==
  IF from = "" \/ to = ""
  THEN [visited |-> {}, queue |-> << >>, result |-> Some(<< >>)]
  ELSE IF from \notin STATION_BY_CODE \/ to \notin STATION_BY_CODE
  THEN [visited |-> {}, queue |-> << >>,
        result |-> Some(IF from \in STATION_BY_CODE THEN << from >> ELSE << >>)]
  ELSE IF from = to
  THEN [visited |-> {}, queue |-> << >>, result |-> Some(<< from >>)]
  ELSE [visited |-> {from}, queue |-> << [code |-> from, path |-> << from >>] >>,
        result |-> None]

\* Line 793: the queue ran empty.
BfsEnd(search, from) ==
  IF IsSome(search.result) THEN search.result[1] ELSE << from >>

RECURSIVE BfsRun(_, _)
BfsRun(search, to) ==
  IF IsSome(search.result) \/ search.queue = << >> THEN search
  ELSE BfsRun(BfsIteration(search, to), to)

findMetroPath(from, to) == BfsEnd(BfsRun(BfsStart(from, to), to), from)

(***************************************************************************)
(* Table extractor (src/app/lib/pdfParser.ts).  A text is the sequence of  *)
(* its characters.  Of the ten columns the model keeps `cont`, `fecha` and *)
(* `transaccion`; the other columns are filled like `transaccion`.         *)
(***************************************************************************)
Digits == {"0", "1", "2", "7"}

UpperLetters == {"A", "D", "E", "N", "Y"}

LowerLetters == {"a", "b"}

isLetter(char) == char \in UpperLetters \cup LowerLetters

isLower(char) == char \in LowerLetters

isUpper(char) == char \in UpperLetters

\* Lines 56-68, the words of the model's letters.
UPPERCASE_JOIN_EXCEPTIONS == { << "D", "E" >>, << "Y" >>, << "D", "A" >> }

\* Line 70: /^\d+$/.
NUMBER_ONLY(text) == text # << >> /\ \A i \in 1..Len(text) : text[i] \in Digits

\* replace(/\D/g, '').
DigitsOf(text) == SelectSeq(text, LAMBDA char : char \in Digits)

\* trimStart, trimEnd, trim.
RECURSIVE trimStart(_)
trimStart(text) ==
  IF text # << >> /\ Head(text) = " " THEN trimStart(Tail(text)) ELSE text

RECURSIVE trimEnd(_)
trimEnd(text) ==
  IF text # << >> /\ text[Len(text)] = " " THEN trimEnd(SubSeq(text, 1, Len(text) - 1))
  ELSE text

trim(text) == trimEnd(trimStart(text))

\* replace(/\s+/g, ' '): a space that follows a space is dropped.
collapseSpaces(text) ==
  LET kept == {i \in 1..Len(text) : ~(text[i] = " " /\ i > 1 /\ text[i - 1] = " ")}
  IN  [k \in 1..Cardinality(kept) |->
         text[CHOOSE i \in kept : Cardinality({j \in kept : j <= i}) = k]]

\* Lines 359-361.
clean(value) == trim(collapseSpaces(value))

\* split(/\s+/)[0] of a text that does not start with a space.
firstToken(text) ==
  LET spaces == {i \in 1..Len(text) : text[i] = " "}
  IN  IF spaces = {} THEN text
      ELSE SubSeq(text, 1, (CHOOSE i \in spaces : \A j \in spaces : i <= j) - 1)

\* Lines 272-306.
shouldSkipSpace(base, addition) ==
  IF base = << >> \/ addition = << >> THEN FALSE
  ELSE LET lastChar == base[Len(base)]
           firstChar == addition[1]
           normalizedToken == SelectSeq(firstToken(trimStart(addition)), isUpper)
       IN  \/ isLetter(lastChar) /\ firstChar = "/"
           \/ lastChar = "/" /\ isLetter(firstChar)
           \/ isLetter(lastChar) /\ firstChar = "-"
           \/ isLetter(lastChar) /\ isLower(firstChar)
           \/ /\ isLetter(lastChar)
              /\ isUpper(firstChar)
              /\ normalizedToken # << >>
              /\ Len(normalizedToken) <= 2
              /\ normalizedToken \notin UPPERCASE_JOIN_EXCEPTIONS

\* Lines 259-270.
appendSegment(base, addition) ==
  IF base = << >> THEN addition
  ELSE IF addition = << >> THEN base
  ELSE LET trimmedBase == trimEnd(base)
           trimmedAddition == trimStart(addition)
           glue == IF shouldSkipSpace(trimmedBase, trimmedAddition) THEN << >> ELSE << " " >>
       IN  trim(collapseSpaces(trimmedBase \o glue \o trimmedAddition))

\* Lines 43-54, the columns of the model.
COLUMN_DEFS == << "cont", "fecha", "transaccion" >>

\* A line of the page: its segments [x, text], sorted by x (lines 143-146).
Seg(x, text) == [x |-> x, text |-> text]

\* The header line "CONT FECHA TRANSACC": each segment carries the label of
\* its column.
HEADER_LINE == << Seg(10, "cont"), Seg(50, "fecha"), Seg(110, "transaccion") >>

DEFAULT_WIDTH == 60

COLUMN_GAP == 8

Infinity == 100000

\* Lines 178-183: the start of the column of index `index`.
RECURSIVE BoundaryStart(_, _)
BoundaryStart(headerLine, index) ==
  LET matches == {i \in 1..Len(headerLine) : headerLine[i].text = COLUMN_DEFS[index]}
  IN  IF matches # {}
      THEN headerLine[CHOOSE i \in matches : \A j \in matches : i <= j].x
      ELSE IF index > 1 THEN BoundaryStart(headerLine, index - 1) + DEFAULT_WIDTH ELSE 0

\* Lines 172-196.
deriveColumnBoundaries(headerLine) ==
  [index \in 1..Len(COLUMN_DEFS) |->
     LET start == BoundaryStart(headerLine, index)
     IN  [key |-> COLUMN_DEFS[index],
          start |-> start,
          end |-> IF index = Len(COLUMN_DEFS) THEN Infinity
                  ELSE LET tentativeEnd == BoundaryStart(headerLine, index + 1) - COLUMN_GAP
                       IN  IF tentativeEnd > start THEN tentativeEnd
                           ELSE start + DEFAULT_WIDTH]]

\* Lines 367-372.
initRow == [key \in {"cont", "fecha", "transaccion"} |-> << >>]

\* Lines 374-376.
hasData(row) == \E key \in DOMAIN row : trim(row[key]) # << >>

\* Lines 245-249: the column of a segment.
ColumnOf(segment, boundaries) ==
  LET found == {index \in 1..Len(boundaries) :
                  /\ index = 1 \/ segment.x >= boundaries[index].start
                  /\ segment.x < boundaries[index].end}
  IN  IF found # {} THEN boundaries[CHOOSE i \in found : \A j \in found : i <= j].key
      ELSE boundaries[Len(boundaries)].key

\* Lines 236-257: the texts of the first n segments of a line, by column.
RECURSIVE bucketizeLoop(_, _, _)
bucketizeLoop(line, boundaries, n) ==
  IF n = 0 THEN initRow
  ELSE LET result == bucketizeLoop(line, boundaries, n - 1)
           normalized == trim(line[n].text)
           column == ColumnOf(line[n], boundaries)
       IN  IF normalized = << >> THEN result
           ELSE [result EXCEPT ![column] =
                   IF result[column] # << >> THEN result[column] \o << " " >> \o normalized
                   ELSE normalized]

bucketize(line, boundaries) == bucketizeLoop(line, boundaries, Len(line))

\* Lines 219-227: the bucket is added to the current row.
AddBucket(row, bucket) ==
  [key \in DOMAIN row |->
     IF bucket[key] = << >> THEN row[key]
     ELSE IF row[key] # << >> THEN appendSegment(row[key], bucket[key])
     ELSE bucket[key]]

\* Lines 202-227: the body of the for loop of collectRawRows on the state
\* st = [rows, current].
CollectBody(st, line, boundaries) ==
  LET bucket == bucketize(line, boundaries)
      contText == DigitsOf(bucket["cont"])
      startsNewRow == Len(contText) > 0 /\ NUMBER_ONLY(contText)
      pushed == IF startsNewRow /\ IsSome(st.current) /\ hasData(st.current[1])
                THEN Append(st.rows, st.current[1]) ELSE st.rows
      current == IF startsNewRow THEN Some(initRow) ELSE st.current
  IN  [rows |-> pushed,
       current |-> IF IsSome(current) THEN Some(AddBucket(current[1], bucket)) ELSE current]

CollectEnd_DropsLast(st) == st.rows

\* Lines 229-233.
CollectEnd(st) ==
  IF IsSome(st.current) /\ hasData(st.current[1]) THEN Append(st.rows, st.current[1])
  ELSE st.rows

\* parseInt(text, 10) of a text of digits; NaN (None) for the empty text.
RECURSIVE DecimalValue(_)
DecimalValue(text) ==
  IF text = << >> THEN 0
  ELSE 10 * DecimalValue(SubSeq(text, 1, Len(text) - 1))
         + (CASE text[Len(text)] = "0" -> 0
              [] text[Len(text)] = "1" -> 1
              [] text[Len(text)] = "2" -> 2
              [] text[Len(text)] = "7" -> 7)

parseInt(text) == IF text = << >> THEN None ELSE Some(DecimalValue(text))

\* Lines 320-348: the record of a row, null (None) when `cont` has no digit.
\* Date, time and amounts are left as their raw text.
normalizeRow(row, page) ==
  LET cont == parseInt(DigitsOf(row["cont"]))
  IN  IF ~IsSome(cont) THEN None
      ELSE Some([cont |-> cont[1],
                 fecha |-> trim(collapseSpaces(row["fecha"])),
                 transaccion |-> clean(row["transaccion"]),
                 page |-> page])

(***************************************************************************)
(* State.  One run of the pipeline of computeAnnualSummary                 *)
(* (part_001:731-736) and of the journey cards (part_003:619-643) on an    *)
(* input array, and one call of findMetroPath.                             *)
(***************************************************************************)
VARIABLES
  records,    \* the array the caller passes
  pc,         \* "start", "fare", "journeys", "stats", "rollup", "done", "metro"
  sorted,     \* the sorted copy the running function works on
  idx,        \* position of forEach in `sorted`
  fare,       \* buildFareInsights: [insights, passStates]
  jst,        \* buildJourneyBlocks: [journeys, pendingEntry]
  journeys,   \* the array buildJourneyBlocks returned
  stats,      \* computeJourneyStats(journeys, insights)
  part,       \* the positions of the journeys of the first group
  rollup,     \* sumJourneyStats of the stats of the two groups
  mFrom,      \* findMetroPath: arguments,
  mTo,
  search,     \* its visited set, queue and result,
  mpc,        \* and its position: "idle", "search", "returned"
  bodyLines,  \* extractTransactionsFromData: the lines below the header,
  lineIdx,    \* the position of the for loop of collectRawRows,
  collect,    \* its [rows, current],
  rawRows,    \* the rows it returned,
  rowIdx,     \* the position of rawRows.forEach,
  pageRecords, \* the records pushed so far,
  tpc,        \* and its position: "idle", "collect", "normalize", "done"
  dailyTotals, \* computeAnnualSummary: the day buckets, sorted by key,
  dayIdx,     \* the position of rideDays.forEach,
  currentStreak,
  bestStreak,
  bizkaibusLineCache, \* the module-level cache of resolveBizkaibusLine,
  stopName,   \* the argument of its last call
  lineMatch,  \* and what that call returned
  tripJourneys, \* computeAnnualSummary: the journeys of journeys.forEach,
  tripIdx,    \* its position,
  metroStationUsage, \* the station buckets
  metroTrips  \* and the trips pushed so far

vars == << records, pc, sorted, idx, fare, jst, journeys, stats, part, rollup,
           mFrom, mTo, search, mpc,
           bodyLines, lineIdx, collect, rawRows, rowIdx, pageRecords, tpc,
           dailyTotals, dayIdx, currentStreak, bestStreak,
           bizkaibusLineCache, stopName, lineMatch,
           tripJourneys, tripIdx, metroStationUsage, metroTrips >>

pipelineVars == << records, pc, sorted, idx, fare, jst, journeys, stats, part, rollup >>

metroVars == << mFrom, mTo, search, mpc >>

tableVars == << bodyLines, lineIdx, collect, rawRows, rowIdx, pageRecords, tpc >>

streakVars == << dailyTotals, dayIdx, currentStreak, bestStreak >>

cacheVars == << bizkaibusLineCache, stopName, lineMatch >>

tripVars == << tripJourneys, tripIdx, metroStationUsage, metroTrips >>

NoSearch == [visited |-> {}, queue |-> << >>, result |-> None]

CollectStart == [rows |-> << >>, current |-> None]

\* No page is being extracted.
TableIdle ==
  /\ bodyLines = << >>
  /\ lineIdx = 1
  /\ collect = CollectStart
  /\ rawRows = << >>
  /\ rowIdx = 1
  /\ pageRecords = << >>
  /\ tpc = "idle"

\* Lines 1027-1028 of part_001.
StreakIdle ==
  /\ dailyTotals = << >>
  /\ dayIdx = 1
  /\ currentStreak = None
  /\ bestStreak = None

\* part_001:255: the cache is empty when the module is loaded.
CacheIdle ==
  /\ bizkaibusLineCache = << >>
  /\ stopName = << >>
  /\ lineMatch = None

\* journeys.forEach of computeAnnualSummary is not running.
TripsIdle ==
  /\ tripJourneys = << >>
  /\ tripIdx = 1
  /\ metroStationUsage = << >>
  /\ metroTrips = << >>

InputsOf(pool) == UNION {[1..n -> pool] : n \in 0..MaxRecords}

InitPipeline(inputs) ==
  /\ records \in inputs
  /\ pc = "start"
  /\ sorted = << >>
  /\ idx = 1
  /\ fare = FareStart
  /\ jst = JourneyStart
  /\ journeys = << >>
  /\ stats = createJourneyStats
  /\ part = {}
  /\ rollup = createJourneyStats
  /\ mFrom = ""
  /\ mTo = ""
  /\ search = NoSearch
  /\ mpc = "idle"
  /\ TableIdle
  /\ StreakIdle
  /\ CacheIdle
  /\ TripsIdle

\* buildFareInsights is called: lines 265-267.
CallBuildFareInsights ==
  /\ pc = "start"
  /\ sorted' = SortAscending(records)
  /\ idx' = 1
  /\ fare' = FareStart
  /\ pc' = "fare"
  /\ UNCHANGED << records, jst, journeys, stats, part, rollup, metroVars, tableVars, streakVars, cacheVars, tripVars >>

\* One iteration of sorted.forEach in buildFareInsights.
FareStep_SharedSnapshot ==
  /\ pc = "fare"
  /\ idx <= Len(sorted)
  /\ LET after == FareBody(fare, sorted[idx])
         live(insight) == MapGet(after.passStates, insight.tariff.normalizedName)
     IN  fare' = [after EXCEPT !.insights =
                    [i \in 1..Len(after.insights) |->
                       IF IsSome(after.insights[i].value.passContext)
                          /\ IsSome(live(after.insights[i].value))
                       THEN [after.insights[i] EXCEPT
                               !.value.passContext =
                                 Some(snapshotPassState(live(after.insights[i].value)[1]))]
                       ELSE after.insights[i]]]
  /\ idx' = idx + 1
  /\ UNCHANGED << records, pc, sorted, jst, journeys, stats, part, rollup, metroVars, tableVars, streakVars, cacheVars, tripVars >>

FareStep ==
  /\ pc = "fare"
  /\ idx <= Len(sorted)
  /\ fare' = FareBody(fare, sorted[idx])
  /\ idx' = idx + 1
  /\ UNCHANGED << records, pc, sorted, jst, journeys, stats, part, rollup, metroVars, tableVars, streakVars, cacheVars, tripVars >>

\* buildFareInsights returns; buildJourneyBlocks is called: lines 345-347.
CallBuildJourneyBlocks ==
  /\ pc = "fare"
  /\ idx > Len(sorted)
  /\ sorted' = SortAscending(records)
  /\ idx' = 1
  /\ jst' = JourneyStart
  /\ pc' = "journeys"
  /\ UNCHANGED << records, fare, journeys, stats, part, rollup, metroVars, tableVars, streakVars, cacheVars, tripVars >>

\* One iteration of sorted.forEach in buildJourneyBlocks.
JourneyStep ==
  /\ pc = "journeys"
  /\ idx <= Len(sorted)
  /\ jst' = JourneyBody(jst, sorted[idx])
  /\ idx' = idx + 1
  /\ UNCHANGED << records, pc, sorted, fare, journeys, stats, part, rollup, metroVars, tableVars, streakVars, cacheVars, tripVars >>

\* Lines 425-429: flush the pending entry, sort, return.
ReturnJourneyBlocks ==
  /\ pc = "journeys"
  /\ idx > Len(sorted)
  /\ journeys' = SortDescending(FlushPending(jst))
  /\ pc' = "stats"
  /\ UNCHANGED << records, sorted, idx, fare, jst, stats, part, rollup, metroVars, tableVars, streakVars, cacheVars, tripVars >>

\* part_001:736.
ComputeStats ==
  /\ pc = "stats"
  /\ stats' = computeJourneyStats(journeys, fare.insights)
  /\ pc' = "rollup"
  /\ UNCHANGED << records, sorted, idx, fare, jst, journeys, part, rollup, metroVars, tableVars, streakVars, cacheVars, tripVars >>

\* part_003:584-636: the journeys are split into groups (the first group is
\* the one of the first journey), each group gets its computeJourneyStats,
\* and the groups' stats are summed.
RollUp ==
  /\ pc = "rollup"
  /\ \E groupA \in {g \in SUBSET (1..Len(journeys)) : journeys = << >> \/ 1 \in g} :
       /\ part' = groupA
       /\ rollup' =
            sumJourneyStats(
              << computeJourneyStats(SelectPart(journeys, Len(journeys), groupA),
                                     fare.insights),
                 computeJourneyStats(SelectPart(journeys, Len(journeys),
                                                (1..Len(journeys)) \ groupA),
                                     fare.insights) >>)
  /\ pc' = "done"
  /\ UNCHANGED << records, sorted, idx, fare, jst, journeys, stats, metroVars, tableVars, streakVars, cacheVars, tripVars >>

Next ==
  \/ CallBuildFareInsights
  \/ FareStep
  \/ CallBuildJourneyBlocks
  \/ JourneyStep
  \/ ReturnJourneyBlocks
  \/ ComputeStats
  \/ RollUp

(***************************************************************************)
(* Inputs.  Times in seconds; amounts in cents.                            *)
(***************************************************************************)
Entrada == {"entrada"}

Salida == {"salida"}

Unica == {"unica"}

RecargaMonedero == {"recarga", "monedero"}

CompraTitulo == {"compra", "titulo"}

Anulacion == {}

JourneyPool ==
  { Rec(1, 1, 0, Entrada, "Metro Bilbao", "Creditrans barik", -155),
    Rec(1, 2, 29, Entrada, "Bizkaibus", "Creditrans barik", -155),
    Rec(1, 4, 29, Salida, "Metro Bilbao", "Creditrans barik", 0),
    Rec(1, 5, 90, Salida, "Metro Bilbao", "Creditrans barik", 0),
    Rec(1, 6, 36000, Salida, "Metro Bilbao", "Creditrans barik", 0),
    Rec(1, 7, 36030, Salida, "Metro Bilbao", "Creditrans barik", 0),
    Rec(1, 8, 29, Unica, "Bilbobus", "Creditrans barik", -96),
    Rec(2, 1, 36000, RecargaMonedero, "Metro Bilbao", "Monedero Creditrans", 2000),
    Rec(2, 2, 29, Anulacion, "Metro Bilbao", "", 0) }

Init == InitPipeline(InputsOf(JourneyPool))

Spec == Init /\ [][Next]_vars

\* Records around passes: a limited pass bought twice, rides on it (one at
\* the very time of the purchase, one whose title needs normalising, one
\* after the expiry), an exit, a wallet ride and a wallet recharge.
FarePool ==
  { Rec(1, 1, 0, CompraTitulo, "Metro Bilbao", "Bono", 1000),
    Rec(1, 2, 0, Unica, "Bilbobus", "Bono", -125),
    Rec(1, 3, 600, Entrada, "Metro Bilbao", " bono ", -125),
    Rec(1, 4, 1200, Salida, "Metro Bilbao", "Bono", 0),
    Rec(1, 5, 1800, Unica, "Bilbobus", "Creditrans barik", -155),
    Rec(1, 6, 2 * DAY_MS, CompraTitulo, "Metro Bilbao", "Bono", 1000),
    Rec(1, 6, 2 * DAY_MS, Unica, "Bilbobus", "Bono", -96),
    Rec(2, 1, 1800, RecargaMonedero, "Metro Bilbao", "Monedero Creditrans", 2000),
    Rec(2, 2, 40 * DAY_MS, Unica, "Bilbobus", "Bono", -125) }

InitFare == InitPipeline(InputsOf(FarePool))

SpecFare == InitFare /\ [][Next]_vars

\* The documented scenario: the purchase of the 10-trip pass and 10
\* single-tap rides on it, ten minutes apart.
ScenarioPurchase == Rec(1, 1, 0, CompraTitulo, "Bilbobus", "BONOBUS10", 1000)

ScenarioRide(i) == Rec(1, 1 + i, 600 * i, Unica, "Bilbobus", "BONOBUS10", -125)

ScenarioRecords == << ScenarioPurchase >> \o [i \in 1..10 |-> ScenarioRide(i)]

Reversed(seq) == [i \in 1..Len(seq) |-> seq[Len(seq) + 1 - i]]

\* The caller passes the scenario oldest first or newest first.
InitScenario == InitPipeline({ScenarioRecords, Reversed(ScenarioRecords)})

SpecScenario == InitScenario /\ [][Next]_vars

(***************************************************************************)
(* One call findMetroPath(mFrom, mTo) (part_001:920), on station codes,    *)
(* unknown codes and the empty string.                                     *)
(***************************************************************************)
UnknownCodes == {"XXX", "YYY"}

InitMetro ==
  /\ records = << >>
  /\ pc = "metro"
  /\ sorted = << >>
  /\ idx = 1
  /\ fare = FareStart
  /\ jst = JourneyStart
  /\ journeys = << >>
  /\ stats = createJourneyStats
  /\ part = {}
  /\ rollup = createJourneyStats
  /\ mFrom \in STATION_BY_CODE \cup UnknownCodes \cup {""}
  /\ mTo \in STATION_BY_CODE \cup UnknownCodes \cup {""}
  /\ search = NoSearch
  /\ mpc = "idle"
  /\ TableIdle
  /\ StreakIdle
  /\ CacheIdle
  /\ TripsIdle

\* Lines 769-779.
MetroCall ==
  /\ mpc = "idle"
  /\ search' = BfsStart(mFrom, mTo)
  /\ mpc' = "search"
  /\ UNCHANGED << pipelineVars, tableVars, streakVars, cacheVars, tripVars, mFrom, mTo >>

\* Lines 780-792: one iteration of the while loop.
MetroStep ==
  /\ mpc = "search"
  /\ ~IsSome(search.result)
  /\ search.queue # << >>
  /\ search' = BfsIteration(search, mTo)
  /\ UNCHANGED << pipelineVars, tableVars, streakVars, cacheVars, tripVars, mFrom, mTo, mpc >>

\* A return statement was reached, or the queue ran empty (line 793).
MetroReturn ==
  /\ mpc = "search"
  /\ IsSome(search.result) \/ search.queue = << >>
  /\ search' = [search EXCEPT !.result = Some(BfsEnd(search, mFrom))]
  /\ mpc' = "returned"
  /\ UNCHANGED << pipelineVars, tableVars, streakVars, cacheVars, tripVars, mFrom, mTo >>

NextMetro ==
  \/ MetroCall
  \/ MetroStep
  \/ MetroReturn

SpecMetro == InitMetro /\ [][NextMetro]_vars

(***************************************************************************)
(* Properties.                                                             *)
(***************************************************************************)
SeqBag(seq) ==
  [x \in {seq[i] : i \in 1..Len(seq)} |-> Cardinality({i \in 1..Len(seq) : seq[i] = x})]

RECURSIVE RecordsOfJourneys(_, _)
RecordsOfJourneys(journeyList, n) ==
  IF n = 0 THEN << >>
  ELSE RecordsOfJourneys(journeyList, n - 1) \o journeyList[n].records

JourneysReturned == pc \in {"stats", "rollup", "done"}

\* C1: the records lists of the journeys buildJourneyBlocks returns hold every
\* input record exactly once (as many times as the input holds it); during the
\* pass, the journeys emitted so far and the pending entry hold exactly the
\* records processed so far.
C1_JourneyExhaustive ==
  /\ JourneysReturned =>
       SeqBag(RecordsOfJourneys(journeys, Len(journeys))) = SeqBag(records)
  /\ pc = "journeys" =>
       SeqBag(RecordsOfJourneys(jst.journeys, Len(jst.journeys)) \o jst.pendingEntry)
         = SeqBag(SubSeq(sorted, 1, idx - 1))

\* C1 witness: a returned list that holds a pair and the entry left pending at
\* the end of the input.
C1_Witness ==
  /\ JourneysReturned
  /\ \E i \in 1..Len(journeys) : journeys[i].reason = "entrada-final"
  /\ \E i \in 1..Len(journeys) : journeys[i].kind = "viaje"

ProcessedAsExit(record) ==
  /\ isExitValidation(record)
  /\ ~isRecargaTransaction(record)
  /\ ~isSingleValidation(record)
  /\ ~isEntryValidation(record)

\* The integer nearest to diff / 60 (halves upwards), for 0 <= diff.
NearestMinute(diff) == CHOOSE d \in 0..(diff \div 60 + 1) : 60 * d - 30 <= diff /\ diff < 60 * d + 30

\* C2: an exit processed at T0 + D while the entry of T0 is pending gives, for
\* 0 < D <= 600 minutes, exactly one new journey, a viaje from the entry to the
\* exit of round(D) minutes, at least 1; for D > 600 minutes or D < 0 no viaje
\* but the entry and the exit as two viaje-unico.
C2_PairingWindow ==
  [][(/\ pc = "journeys"
      /\ idx <= Len(sorted)
      /\ ProcessedAsExit(sorted[idx])
      /\ IsSome(jst.pendingEntry))
     => LET entry == jst.pendingEntry[1]
            exit == sorted[idx]
            diff == exit.time - entry.time
            before == Len(jst.journeys)
            after == jst'.journeys
        IN  /\ SubSeq(after, 1, before) = jst.journeys
            /\ (0 < diff /\ diff <= 600 * 60) =>
                 /\ Len(after) = before + 1
                 /\ after[before + 1].kind = "viaje"
                 /\ after[before + 1].start = entry
                 /\ after[before + 1].end = Some(exit)
                 /\ after[before + 1].durationMinutes = Some(Max(1, NearestMinute(diff)))
            /\ (diff > 600 * 60 \/ diff < 0) =>
                 /\ Len(after) = before + 2
                 /\ after[before + 1].kind = "viaje-unico"
                 /\ after[before + 1].start = entry
                 /\ after[before + 2].kind = "viaje-unico"
                 /\ after[before + 2].start = exit]_vars

\* C2 witness: a pair of exactly 600 minutes has been emitted.
C2_Witness ==
  /\ pc = "journeys"
  /\ \E i \in 1..Len(jst.journeys) :
       /\ jst.journeys[i].kind = "viaje"
       /\ jst.journeys[i].end[1].time - jst.journeys[i].start.time = 600 * 60
       /\ jst.journeys[i].durationMinutes = Some(600)

WellFormedJourney(journey) ==
  IF journey.kind = "viaje"
  THEN /\ IsSome(journey.end)
       /\ journey.end[1].time >= journey.start.time
       /\ journey.records = << journey.start, journey.end[1] >>
       /\ IsSome(journey.durationMinutes)
       /\ 1 <= journey.durationMinutes[1]
       /\ journey.durationMinutes[1] <= 600
  ELSE /\ journey.end = None
       /\ journey.durationMinutes = None
       /\ Len(journey.records) = 1

\* C5: a viaje has start and end, end not before start, the records
\* [start, end] and a duration from 1 to 600 minutes; any other journey has no
\* end, no duration and one record.
C5_JourneyShape ==
  /\ \A i \in 1..Len(jst.journeys) : WellFormedJourney(jst.journeys[i])
  /\ \A i \in 1..Len(journeys) : WellFormedJourney(journeys[i])

\* C5 witness: a returned list with a pair of less than half a minute and a
\* journey of another kind.
C5_Witness ==
  /\ JourneysReturned
  /\ \E i \in 1..Len(journeys) :
       /\ journeys[i].kind = "viaje"
       /\ journeys[i].end[1].time - journeys[i].start.time < 30
  /\ \E i \in 1..Len(journeys) : journeys[i].kind # "viaje"

TariffNameOf(record) == getTariffInfoFromTitle(record.titulo).normalizedName

IsPurchaseOf(record, name) ==
  /\ ~isWalletRechargeRecord(record)
  /\ isTitleRechargeRecord(record)
  /\ getTariffInfoFromTitle(record.titulo).kind # "wallet"
  /\ TariffNameOf(record) = name

IsQualifyingRide(record, name) ==
  /\ isEntryValidation(record) \/ isSingleValidation(record)
  /\ ~isRecargaTransaction(record)
  /\ TariffNameOf(record) = name

\* The position in sorted[1..n] of the last purchase of the tariff (0: none).
LastPurchase(name, n) ==
  LET found == {i \in 1..n : IsPurchaseOf(sorted[i], name)}
  IN  IF found = {} THEN 0 ELSE CHOOSE i \in found : \A j \in found : j <= i

\* The number of qualifying rides on the tariff since its last purchase.
RidesSince(name, n) ==
  Cardinality({i \in (LastPurchase(name, n) + 1)..n : IsQualifyingRide(sorted[i], name)})

LimitedPasses ==
  {i \in 1..Len(fare.passStates) : IsSome(fare.passStates[i].value.totalTrips)}

\* C3 as stated: after k qualifying rides (k <= T) on a limited pass of T
\* trips its remaining trips are T - k.
C3_RemainingIsTotalMinusRides ==
  pc = "fare" =>
    \A i \in LimitedPasses :
      LET pass == fare.passStates[i].value
          k == RidesSince(fare.passStates[i].key, idx - 1)
      IN  k <= pass.totalTrips[1] => pass.remainingTrips = Some(pass.totalTrips[1] - k)

\* C3 amended: after k qualifying rides (k <= T) on a limited pass of T trips
\* its remaining trips are T - max(k - 1, 0): the purchase leaves T, the first
\* ride after it does not decrement, each later one decrements by one; the
\* remaining trips are never negative.
C3_RemainingSkipsFirstRide ==
  pc = "fare" =>
    \A i \in LimitedPasses :
      LET pass == fare.passStates[i].value
          k == RidesSince(fare.passStates[i].key, idx - 1)
      IN  /\ IsSome(pass.remainingTrips)
          /\ pass.remainingTrips[1] >= 0
          /\ k <= pass.totalTrips[1] =>
               pass.remainingTrips = Some(pass.totalTrips[1] - Max(k - 1, 0))

\* C3 witness: a limited pass after as many qualifying rides as it has trips.
C3_Witness ==
  /\ pc = "fare"
  /\ \E i \in LimitedPasses :
       /\ RidesSince(fare.passStates[i].key, idx - 1) = fare.passStates[i].value.totalTrips[1]
       /\ fare.passStates[i].value.remainingTrips = Some(1)

FareReturned == pc \in {"journeys", "stats", "rollup", "done"}

RemainingAtRide(i) ==
  LET found == MapGet(fare.insights, << 1, 1 + i, 600 * i >>)
  IN  IF IsSome(found) /\ IsSome(found[1].limitedContext)
      THEN found[1].limitedContext[1].remainingTrips ELSE None

StatsComputed == pc \in {"rollup", "done"}

\* C4 as stated: in the scenario the first ride's insight has 9 remaining
\* trips and the tenth 0; the statistics count 1 title purchase and 10 rides.
C4_ScenarioNineToZero ==
  StatsComputed =>
    /\ RemainingAtRide(1) = Some(9)
    /\ RemainingAtRide(10) = Some(0)
    /\ stats.titlePurchases = 1
    /\ stats.rides = 10

\* C4 amended: in the scenario the first ride's insight has 10 remaining trips
\* (it consumes the ignore flag of the purchase) and the tenth 1; the
\* statistics count 1 title purchase and 10 rides.
C4_ScenarioTenToOne ==
  StatsComputed =>
    /\ RemainingAtRide(1) = Some(10)
    /\ RemainingAtRide(10) = Some(1)
    /\ \A i \in 2..10 : RemainingAtRide(i) = Some(11 - i)
    /\ stats.titlePurchases = 1
    /\ stats.rides = 10

\* C4 witness: the statistics of the scenario, passed newest first, are there.
C4_Witness ==
  /\ pc = "done"
  /\ records = Reversed(ScenarioRecords)
  /\ Len(journeys) = 11
  /\ Len(fare.insights) = 11

Triple(record) == << record.page, record.cont, record.time >>

DistinctTriples(recs) ==
  \A i, j \in 1..Len(recs) : i # j => Triple(recs[i]) # Triple(recs[j])

ExpectedUsageKind(record) ==
  IF isWalletRechargeRecord(record) THEN "wallet-recharge"
  ELSE IF isTitleRechargeRecord(record)
          /\ getTariffInfoFromTitle(record.titulo).kind # "wallet"
  THEN "title-recharge"
  ELSE "ride"

InsightIsOf(i) ==
  LET found == MapGet(fare.insights, Triple(sorted[i]))
  IN  /\ IsSome(found)
      /\ found = MapGet(FareFold(sorted, i).insights, Triple(sorted[i]))
      /\ found[1].usageKind = ExpectedUsageKind(sorted[i])
      /\ found[1].tariff = getTariffInfoFromTitle(sorted[i].titulo)

\* C7 as stated: for any input the map has as many insights as the input has
\* records, and the lookup of a record's (page, cont, timestamp) gives the
\* insight computed for that record.
C7_OneInsightPerRecord ==
  FareReturned =>
    /\ Len(fare.insights) = Len(records)
    /\ \A i \in 1..Len(sorted) : InsightIsOf(i)

\* C7 amended: for an input whose records have pairwise distinct
\* (page, cont, timestamp) the map has as many insights as the input has
\* records, and the lookup of a record's (page, cont, timestamp) gives the
\* insight computed when that record was processed.
C7_OneInsightPerDistinctKey ==
  (FareReturned /\ DistinctTriples(records)) =>
    /\ Len(fare.insights) = Len(records)
    /\ \A i \in 1..Len(sorted) : InsightIsOf(i)

\* C7 witness: insights of three records that differ in cont only, in page
\* only or in timestamp only.
C7_Witness ==
  /\ FareReturned
  /\ DistinctTriples(records)
  /\ Len(fare.insights) = 3
  /\ \E i, j \in 1..Len(records) :
       /\ records[i].page = records[j].page
       /\ records[i].time = records[j].time
       /\ records[i].cont # records[j].cont

\* C6: the sum of the stats of the two parts of the journey list equals the
\* stats computed once over the whole list, in every field.
C6_RollUpEqualsStats ==
  pc = "done" =>
    /\ rollup.rides = stats.rides
    /\ rollup.walletRecharges = stats.walletRecharges
    /\ rollup.titlePurchases = stats.titlePurchases
    /\ rollup.travelMinutes = stats.travelMinutes
    /\ rollup.savings = stats.savings
    /\ rollup.spent = stats.spent

PermutationsOf(recs) ==
  {[i \in 1..Len(recs) |-> recs[f[i]]] :
     f \in {g \in [1..Len(recs) -> 1..Len(recs)] : \A i, j \in 1..Len(recs) : i # j => g[i] # g[j]}}

MapEntries(m) == {m[i] : i \in 1..Len(m)}

\* C10: for every permutation of the input records buildFareInsights gives the
\* same insight for every key and buildJourneyBlocks the same journeys,
\* records that share a timestamp included.
C10_OrderIndependent ==
  pc = "done" =>
    \A perm \in PermutationsOf(records) :
      /\ MapEntries(buildFareInsights(perm)) = MapEntries(fare.insights)
      /\ SeqBag(buildJourneyBlocks(perm)) = SeqBag(journeys)

GraphCodes == MapKeys(STATION_GRAPH)

CodesOf(path) == {path[i] : i \in 1..Len(path)}

\* C8: for two station codes a, b of the station graph findMetroPath(a, b)
\* and findMetroPath(b, a) have the same length and the same set of stations.
C8_PathSymmetry ==
  (mpc = "returned" /\ mFrom \in GraphCodes /\ mTo \in GraphCodes) =>
    /\ Len(search.result[1]) = Len(findMetroPath(mTo, mFrom))
    /\ CodesOf(search.result[1]) = CodesOf(findMetroPath(mTo, mFrom))

\* C8 witness: a returned path between two branches, through the trunk.
C8_Witness ==
  /\ mpc = "returned"
  /\ mFrom \in GraphCodes
  /\ mTo \in GraphCodes
  /\ mFrom # mTo
  /\ Len(search.result[1]) >= 5
  /\ search.result[1][1] = mFrom
  /\ search.result[1][Len(search.result[1])] = mTo

Known(code) == code \in STATION_BY_CODE

\* C9 as stated: from = to gives [from]; exactly one unknown endpoint gives
\* the path of the known endpoint alone, whichever it is; no known endpoint
\* gives the empty list.
C9_DegenerateAsStated ==
  mpc = "returned" =>
    /\ mFrom = mTo => search.result[1] = << mFrom >>
    /\ (Known(mFrom) /\ ~Known(mTo)) => search.result[1] = << mFrom >>
    /\ (~Known(mFrom) /\ Known(mTo)) => search.result[1] = << mTo >>
    /\ (~Known(mFrom) /\ ~Known(mTo) /\ mFrom # mTo) => search.result[1] = << >>

\* C9 amended: from = to, a known code, gives [from]; a known from with a
\* non-empty unknown to gives [from]; an unknown or empty from, or an empty
\* to, gives the empty list (also when to is known, and when from = to).
C9_DegenerateFromOnly ==
  mpc = "returned" =>
    /\ (mFrom = mTo /\ Known(mFrom)) => search.result[1] = << mFrom >>
    /\ (Known(mFrom) /\ ~Known(mTo) /\ mTo # "") => search.result[1] = << mFrom >>
    /\ (~Known(mFrom) \/ mFrom = "" \/ mTo = "") => search.result[1] = << >>

\* C9 witness: the call with an unknown from and a known to has returned.
C9_Witness ==
  /\ mpc = "returned"
  /\ mFrom \in UnknownCodes
  /\ Known(mTo)
  /\ search.result[1] = << >>

(***************************************************************************)
(* The documented wallet scenario: one wallet recharge of 20.00 followed   *)
(* by an entry and an exit 8 minutes apart costing 1.55, the fare on the   *)
(* entry or on the exit, the array in any order.                           *)
(***************************************************************************)
WalletRecharge(at) ==
  Rec(1, 1, at, RecargaMonedero, "Metro Bilbao", "MONEDERO CREDITRANS", 2000)

WalletEntry(fareOnEntry) ==
  Rec(1, 2, 600, Entrada, "Metro Bilbao", "Creditrans barik", IF fareOnEntry THEN -155 ELSE 0)

WalletExit(fareOnEntry) ==
  Rec(1, 3, 1080, Salida, "Metro Bilbao", "Creditrans barik", IF fareOnEntry THEN 0 ELSE -155)

WalletRecords(at, fareOnEntry) ==
  << WalletRecharge(at), WalletEntry(fareOnEntry), WalletExit(fareOnEntry) >>

InitWallet ==
  InitPipeline(UNION {PermutationsOf(WalletRecords(at, fareOnEntry)) :
                        at \in {0, 300, 599}, fareOnEntry \in BOOLEAN})

SpecWallet == InitWallet /\ [][Next]_vars

WalletStats ==
  [rides |-> 1, walletRecharges |-> 1, titlePurchases |-> 0,
   savings |-> DblZero, spent |-> Number_parseFloat(2155), travelMinutes |-> 8]

JourneyKinds == [i \in 1..Len(journeys) |-> journeys[i].kind]

\* C11 as stated: in the wallet scenario buildJourneyBlocks returns
\* [recarga, viaje of 8 minutes] and computeJourneyStats returns rides 1,
\* walletRecharges 1, spent 21.55, savings 0, travelMinutes 8.
C11_WalletScenarioAsStated ==
  StatsComputed =>
    /\ JourneyKinds = << "recarga", "viaje" >>
    /\ journeys[2].durationMinutes = Some(8)
    /\ stats = WalletStats

\* C11 amended: in the wallet scenario buildJourneyBlocks returns the journeys
\* newest first, [viaje of 8 minutes, recarga], and computeJourneyStats
\* returns rides 1, walletRecharges 1, spent 21.55, savings 0,
\* travelMinutes 8.
C11_WalletScenarioNewestFirst ==
  StatsComputed =>
    /\ JourneyKinds = << "viaje", "recarga" >>
    /\ journeys[1].durationMinutes = Some(8)
    /\ stats = WalletStats

\* C11 witness: the statistics of the wallet scenario are there, for an array
\* that was passed with the exit first.
C11_Witness ==
  /\ StatsComputed
  /\ Len(records) = 3
  /\ isExitValidation(records[1])
  /\ isWalletRechargeRecord(records[3])
  /\ stats.spent = Number_parseFloat(2155)

StartTime(journey) == getRecordDate(journey.start)

\* C12: the list buildJourneyBlocks returns is sorted by descending start
\* time: each journey starts no earlier than the next one in the list.
C12_SortedNewestFirst ==
  JourneysReturned =>
    \A i \in 1..(Len(journeys) - 1) : StartTime(journeys[i]) >= StartTime(journeys[i + 1])

\* C12 witness: the list was returned, and the pairing pass had emitted an
\* orphaned entry behind a journey that starts later than it.
C12_Witness ==
  /\ JourneysReturned
  /\ \E i, j \in 1..Len(jst.journeys) :
       /\ i < j
       /\ jst.journeys[j].reason = "entrada-sin-salida"
       /\ StartTime(jst.journeys[i]) > StartTime(jst.journeys[j])

(***************************************************************************)
(* Arrays of up to MaxPassRecords records around two purchases of the same *)
(* limited pass, two rides between them, and the purchase of a monthly     *)
(* pass.                                                                   *)
(***************************************************************************)
MaxPassRecords == 4

PassPool ==
  { Rec(1, 1, 0, CompraTitulo, "Metro Bilbao", "Bono", 1000),
    Rec(1, 2, 600, Unica, "Bilbobus", "Bono", -125),
    Rec(1, 3, 1200, Entrada, "Metro Bilbao", " bono ", -125),
    Rec(1, 4, 1800, CompraTitulo, "Metro Bilbao", "Mensual", 3000),
    Rec(1, 5, 2 * DAY_MS, CompraTitulo, "Metro Bilbao", "Bono", 1000) }

InitPass == InitPipeline(UNION {[1..n -> PassPool] : n \in 0..MaxPassRecords})

SpecPass == InitPass /\ [][Next]_vars

\* The forEach of buildFareInsights is at a title purchase of a pass tariff
\* that has a pass state.
AtRepurchase ==
  /\ pc = "fare"
  /\ idx <= Len(sorted)
  /\ IsPurchaseOf(sorted[idx], TariffNameOf(sorted[idx]))
  /\ MapHas(fare.passStates, TariffNameOf(sorted[idx]))

\* C13: a title purchase processed while the tariff has a pass state replaces
\* that state: the remaining trips are the trip limit of the tariff (none for
\* a pass without a limit), purchase date, expiry and purchaseRecordKey are
\* those of the new purchase, no pass state is added, and no two pass states
\* have the same normalized tariff name.
C13_PurchaseReplacesPass ==
  [][AtRepurchase
     => LET record == sorted[idx]
            tariff == getTariffInfoFromTitle(record.titulo)
            new == MapGet(fare'.passStates, tariff.normalizedName)
        IN  /\ IsSome(new)
            /\ new[1].remainingTrips =
                 (IF tariff.limitTravel > 0 THEN Some(tariff.limitTravel) ELSE None)
            /\ new[1].totalTrips = new[1].remainingTrips
            /\ new[1].purchaseDate = record.time
            /\ new[1].expiresAt = Some(record.time + PASS_VALID_DAYS * DAY_MS)
            /\ new[1].purchaseRecordKey = Triple(record)
            /\ Len(fare'.passStates) = Len(fare.passStates)
            /\ \A i, j \in 1..Len(fare'.passStates) :
                 i # j => fare'.passStates[i].key # fare'.passStates[j].key]_vars

\* C13 witness: the second purchase of the limited pass has just been
\* processed; before it the pass had one trip left of two and an earlier
\* purchase date, now it has the trip limit again.
C13_Witness ==
  /\ pc = "fare"
  /\ idx > 1
  /\ IsPurchaseOf(sorted[idx - 1], "BONO")
  /\ LET before == MapGet(FareFold(sorted, idx - 2).passStates, "BONO")
         after == MapGet(fare.passStates, "BONO")
     IN  /\ IsSome(before)
         /\ before[1].remainingTrips = Some(TripLimit - 1)
         /\ IsSome(after)
         /\ after[1].remainingTrips = Some(TripLimit)
         /\ after[1].purchaseDate > before[1].purchaseDate

(***************************************************************************)
(* extractTransactionsFromData on one page with a header                   *)
(* (pdfParser.ts:91-118): up to MaxLines lines below the header.          *)
(***************************************************************************)
MaxLines == 3

\* Lines that start a row (a number in the `cont` column), continuation
\* lines, a line with letters only in the `cont` column and one whose `cont`
\* mixes a letter and a digit.
LinePool ==
  { << Seg(12, << "7" >>), Seg(110, << "A", "b" >>) >>,
    << Seg(12, << "1", "2" >>), Seg(50, << "0", "1", "/", "0", "2" >>), Seg(110, << "D", "E" >>) >>,
    << Seg(110, << "a", "/", " ", " ", "b" >>) >>,
    << Seg(50, << "1", "0" >>), Seg(110, << "N" >>) >>,
    << Seg(12, << "A" >>), Seg(110, << "b" >>) >>,
    << Seg(12, << "N", "1" >>), Seg(110, << "-", "a" >>) >> }

InitTable ==
  /\ records = << >>
  /\ pc = "table"
  /\ sorted = << >>
  /\ idx = 1
  /\ fare = FareStart
  /\ jst = JourneyStart
  /\ journeys = << >>
  /\ stats = createJourneyStats
  /\ part = {}
  /\ rollup = createJourneyStats
  /\ mFrom = ""
  /\ mTo = ""
  /\ search = NoSearch
  /\ mpc = "idle"
  /\ bodyLines \in UNION {[1..n -> LinePool] : n \in 0..MaxLines}
  /\ lineIdx = 1
  /\ collect = CollectStart
  /\ rawRows = << >>
  /\ rowIdx = 1
  /\ pageRecords = << >>
  /\ tpc = "idle"
  /\ StreakIdle
  /\ CacheIdle
  /\ TripsIdle

\* Lines 105-107: collectRawRows is called.
CallCollectRawRows ==
  /\ tpc = "idle"
  /\ pc = "table"
  /\ collect' = CollectStart
  /\ lineIdx' = 1
  /\ tpc' = "collect"
  /\ UNCHANGED << pipelineVars, metroVars, streakVars, cacheVars, tripVars,
                  bodyLines, rawRows, rowIdx, pageRecords >>

\* Lines 202-227: one line.
CollectStep ==
  /\ tpc = "collect"
  /\ lineIdx <= Len(bodyLines)
  /\ collect' = CollectBody(collect, bodyLines[lineIdx], deriveColumnBoundaries(HEADER_LINE))
  /\ lineIdx' = lineIdx + 1
  /\ UNCHANGED << pipelineVars, metroVars, streakVars, cacheVars, tripVars,
                  bodyLines, rawRows, rowIdx, pageRecords, tpc >>

\* Lines 229-233: collectRawRows returns.
ReturnRawRows ==
  /\ tpc = "collect"
  /\ lineIdx > Len(bodyLines)
  /\ rawRows' = CollectEnd(collect)
  /\ rowIdx' = 1
  /\ tpc' = "normalize"
  /\ UNCHANGED << pipelineVars, metroVars, streakVars, cacheVars, tripVars,
                  bodyLines, lineIdx, collect, pageRecords >>

\* Lines 109-114: one row of rawRows.forEach.
NormalizeStep ==
  /\ tpc = "normalize"
  /\ rowIdx <= Len(rawRows)
  /\ LET parsed == normalizeRow(rawRows[rowIdx], 1)
     IN  pageRecords' = IF IsSome(parsed) THEN Append(pageRecords, parsed[1]) ELSE pageRecords
  /\ rowIdx' = rowIdx + 1
  /\ UNCHANGED << pipelineVars, metroVars, streakVars, cacheVars, tripVars,
                  bodyLines, lineIdx, collect, rawRows, tpc >>

\* Line 117.
ReturnRecords ==
  /\ tpc = "normalize"
  /\ rowIdx > Len(rawRows)
  /\ tpc' = "done"
  /\ UNCHANGED << pipelineVars, metroVars, streakVars, cacheVars, tripVars,
                  bodyLines, lineIdx, collect, rawRows, rowIdx, pageRecords >>

NextTable ==
  \/ CallCollectRawRows
  \/ CollectStep
  \/ ReturnRawRows
  \/ NormalizeStep
  \/ ReturnRecords

SpecTable == InitTable /\ [][NextTable]_vars

\* What the `cont` and `transaccion` columns of line i hold.
ContOf(i) == bucketize(bodyLines[i], deriveColumnBoundaries(HEADER_LINE))["cont"]

TextOf(i) == bucketize(bodyLines[i], deriveColumnBoundaries(HEADER_LINE))["transaccion"]

\* The lines that begin a data row: their `cont` is a pure integer.
RowStarts == {i \in 1..Len(bodyLines) : NUMBER_ONLY(ContOf(i))}

RowStart(k) == CHOOSE i \in RowStarts : Cardinality({j \in RowStarts : j <= i}) = k

\* Every line is the first line of a row or a continuation line without a
\* `cont` value, and the first line begins a row.
WellFormedRows ==
  /\ \A i \in 1..Len(bodyLines) : ContOf(i) = << >> \/ i \in RowStarts
  /\ bodyLines # << >> => 1 \in RowStarts

NonSpace(text) == SelectSeq(text, LAMBDA char : char # " ")

\* The characters of the `transaccion` column of lines from..to.
RECURSIVE RowChars(_, _)
RowChars(from, to) ==
  IF from > to THEN << >> ELSE RowChars(from, to - 1) \o NonSpace(TextOf(to))

RowEnd(k) == IF k = Cardinality(RowStarts) THEN Len(bodyLines) ELSE RowStart(k + 1) - 1

\* C14: a page of N well-formed data rows gives exactly N records, in the
\* order of the rows, each with the number of its row and the text of its
\* lines; on any page every row that begins with a pure integer gives a
\* record, so only rows without one reduce the count.
C14_RowCountConserved ==
  tpc = "done" =>
    /\ Len(pageRecords) >= Cardinality(RowStarts)
    /\ Len(pageRecords) <= Len(bodyLines)
    /\ WellFormedRows =>
         /\ Len(pageRecords) = Cardinality(RowStarts)
         /\ \A k \in 1..Len(pageRecords) :
              /\ pageRecords[k].cont = DecimalValue(ContOf(RowStart(k)))
              /\ NonSpace(pageRecords[k].transaccion) = RowChars(RowStart(k), RowEnd(k))

\* C14 witness: a page of two rows, the first of them with a continuation
\* line, gave two records.
C14_Witness ==
  /\ tpc = "done"
  /\ WellFormedRows
  /\ Len(bodyLines) = 3
  /\ RowStarts = {1, 3}
  /\ Len(pageRecords) = 2
  /\ pageRecords[1].cont # pageRecords[2].cont

(***************************************************************************)
(* computeAnnualSummary, day buckets and streak (part_001:906-1066,        *)
(* 1122).  A Date is its time in seconds, local time without a zone        *)
(* offset; getDayKey (part_004:860-865) is the number of the calendar day, *)
(* whose order is the order of the 'YYYY-MM-DD' keys.                      *)
(***************************************************************************)
getDayKey(date) == date \div DAY_MS

\* part_001:941-983: one journey of journeys.forEach on the Map of day
\* buckets.
DayTotalsBody(dayTotalsMap, journey) ==
  LET startDate == getRecordDate(journey.start)
      dayKey == getDayKey(startDate)
      found == MapGet(dayTotalsMap, dayKey)
      dayBucket == IF IsSome(found) THEN found[1]
                   ELSE [key |-> dayKey, date |-> startDate, rides |-> 0, recharges |-> 0,
                         travelMinutes |-> 0]
      ridden ==
        IF journey.kind \in {"viaje", "viaje-unico"}
        THEN [dayBucket EXCEPT
                !.rides = dayBucket.rides + 1,
                !.travelMinutes =
                  IF IsSome(journey.durationMinutes)
                  THEN dayBucket.travelMinutes + Max(0, journey.durationMinutes[1])
                  ELSE dayBucket.travelMinutes]
        ELSE dayBucket
      recharged ==
        IF journey.kind = "recarga" THEN [ridden EXCEPT !.recharges = ridden.recharges + 1]
        ELSE ridden
  IN  MapSet(dayTotalsMap, dayKey, recharged)

RECURSIVE DayTotalsFold(_, _)
DayTotalsFold(journeyList, n) ==
  IF n = 0 THEN << >>
  ELSE DayTotalsBody(DayTotalsFold(journeyList, n - 1), journeyList[n])

\* part_001:989-1001: the buckets, sorted by key.
SortByKey(dayTotalsMap) ==
  LET key == [i \in 1..Len(dayTotalsMap) |-> dayTotalsMap[i].key]
  IN  [k \in 1..Len(dayTotalsMap) |->
         dayTotalsMap[CHOOSE i \in 1..Len(dayTotalsMap) : StableRank(key, i) = k].value]

\* part_001:1026.
RideDaysOf(days) == SelectSeq(days, LAMBDA day : day.rides > 0)

\* Math.round(x / DAY_MS).
MathRoundDays(diff) == (2 * diff + DAY_MS) \div (2 * DAY_MS)

Streak(length, startDate, endDate) ==
  [length |-> length, startDate |-> startDate, endDate |-> endDate]

BetterStreak(best, current) ==
  IF ~IsSome(best) \/ current.length > best[1].length THEN Some(current) ELSE best

\* part_001:1030-1065: one day of rideDays.forEach on
\* st = [currentStreak, bestStreak].
StreakBody(st, day) ==
  LET current ==
        IF ~IsSome(st.currentStreak) THEN Streak(1, day.date, day.date)
        ELSE LET diffDays == MathRoundDays(day.date - st.currentStreak[1].endDate)
             IN  IF diffDays = 1
                 THEN Streak(st.currentStreak[1].length + 1, st.currentStreak[1].startDate,
                             day.date)
                 ELSE IF diffDays > 1 THEN Streak(1, day.date, day.date)
                 ELSE Streak(st.currentStreak[1].length, st.currentStreak[1].startDate,
                             day.date)
      flushed ==
        IF IsSome(st.currentStreak)
           /\ MathRoundDays(day.date - st.currentStreak[1].endDate) > 1
        THEN BetterStreak(st.bestStreak, st.currentStreak[1]) ELSE st.bestStreak
  IN  [currentStreak |-> Some(current), bestStreak |-> BetterStreak(flushed, current)]

\* part_001:906-1001: the day buckets of the journeys.
CollectDayTotals ==
  /\ pc = "rollup"
  /\ dailyTotals' = SortByKey(DayTotalsFold(journeys, Len(journeys)))
  /\ dayIdx' = 1
  /\ currentStreak' = None
  /\ bestStreak' = None
  /\ pc' = "streak"
  /\ UNCHANGED << records, sorted, idx, fare, jst, journeys, stats, part, rollup,
                  metroVars, tableVars, cacheVars, tripVars >>

\* part_001:1030-1065: one day of rideDays.forEach.
StreakStep ==
  /\ pc = "streak"
  /\ dayIdx <= Len(RideDaysOf(dailyTotals))
  /\ LET after == StreakBody([currentStreak |-> currentStreak, bestStreak |-> bestStreak],
                             RideDaysOf(dailyTotals)[dayIdx])
     IN  /\ currentStreak' = after.currentStreak
         /\ bestStreak' = after.bestStreak
  /\ dayIdx' = dayIdx + 1
  /\ UNCHANGED << pipelineVars, dailyTotals, metroVars, tableVars, cacheVars, tripVars >>

\* part_001:1122: highlightStreak is bestStreak.
ReturnSummary ==
  /\ pc = "streak"
  /\ dayIdx > Len(RideDaysOf(dailyTotals))
  /\ pc' = "summary"
  /\ UNCHANGED << records, sorted, idx, fare, jst, journeys, stats, part, rollup,
                  streakVars, metroVars, tableVars, cacheVars, tripVars >>

NextSummary ==
  \/ CallBuildFareInsights
  \/ FareStep
  \/ CallBuildJourneyBlocks
  \/ JourneyStep
  \/ ReturnJourneyBlocks
  \/ ComputeStats
  \/ CollectDayTotals
  \/ StreakStep
  \/ ReturnSummary

\* Single-tap rides early and late on the days 0, 1, 2 and 4, and a wallet
\* recharge on day 3.
DayPool ==
  { Rec(1, 1, 3600, Unica, "Bilbobus", "Creditrans barik", -96),
    Rec(1, 2, 82800, Unica, "Bilbobus", "Creditrans barik", -96),
    Rec(1, 3, DAY_MS + 3600, Unica, "Bilbobus", "Creditrans barik", -96),
    Rec(1, 4, DAY_MS + 82800, Unica, "Bilbobus", "Creditrans barik", -96),
    Rec(1, 5, 2 * DAY_MS + 43200, Unica, "Bilbobus", "Creditrans barik", -96),
    Rec(1, 6, 3 * DAY_MS + 43200, RecargaMonedero, "Metro Bilbao", "Monedero Creditrans", 2000),
    Rec(1, 7, 4 * DAY_MS + 3600, Unica, "Bilbobus", "Creditrans barik", -96) }

InitSummary == InitPipeline(InputsOf(DayPool))

SpecSummary == InitSummary /\ [][NextSummary]_vars

\* The calendar days that have a ride journey.
RideDayKeys ==
  {getDayKey(getRecordDate(journeys[i].start)) :
     i \in {j \in 1..Len(journeys) : journeys[j].kind \in {"viaje", "viaje-unico"}}}

\* The length of the run of consecutive days of `days` that starts at `day`.
RECURSIVE RunFrom(_, _)
RunFrom(days, day) == IF day \in days THEN 1 + RunFrom(days, day + 1) ELSE 0

LongestRun(days) ==
  IF days = {} THEN 0
  ELSE CHOOSE n \in 1..Cardinality(days) :
         /\ \E day \in days : RunFrom(days, day) = n
         /\ \A day \in days : RunFrom(days, day) <= n

\* C15: highlightStreak.length is the length of the longest run of
\* consecutive calendar days with a ride journey (no streak without rides),
\* whatever the times of day, and the streak kept is the first of that
\* length.
C15_StreakIsLongestRun ==
  pc = "summary" =>
    IF RideDayKeys = {} THEN bestStreak = None
    ELSE /\ IsSome(bestStreak)
         /\ bestStreak[1].length = LongestRun(RideDayKeys)
         /\ \A day \in RideDayKeys :
              RunFrom(RideDayKeys, day) = LongestRun(RideDayKeys)
                => getDayKey(bestStreak[1].startDate) <= day

(***************************************************************************)
(* Tariff lookup on the titles of the records: no title, blank titles, an  *)
(* unknown title, the four aliases and a title of the catalog.             *)
(***************************************************************************)
TitlePool ==
  { Rec(1, 1, 0, Unica, "Bilbobus", NullTitle, -96),
    Rec(1, 2, 60, Unica, "Bilbobus", "", -96),
    Rec(1, 3, 120, Unica, "Bilbobus", " ", -96),
    Rec(1, 4, 180, Unica, "Bilbobus", "Ti'tulo X", -96),
    Rec(1, 5, 240, Unica, "Bilbobus", "MONEDERO CREDITRANS", -96),
    Rec(1, 6, 300, Unica, "Bilbobus", "CREDITRANS", -96),
    Rec(1, 7, 360, Unica, "Bilbobus", "CREDITRANS BARIK", -96),
    Rec(1, 8, 420, Unica, "Bilbobus", "(em dash)", -96),
    Rec(1, 9, 480, Unica, "Bilbobus", "Bono", -96) }

InitTitles == InitPipeline(InputsOf(TitlePool))

SpecTitles == InitTitles /\ [][Next]_vars

\* The titles of the pool that are absent, match no catalog entry or are an
\* alias.
DegradedTitles ==
  {NullTitle, "", " ", "Ti'tulo X", "MONEDERO CREDITRANS", "CREDITRANS", "CREDITRANS BARIK",
   "(em dash)"}

\* The title of the record that the k-th insight belongs to.
TitleOfInsight(k) ==
  (CHOOSE record \in {sorted[i] : i \in 1..Len(sorted)} : getRecordKey(record) = fare.insights[k].key).titulo

\* C16: every record gets a tariff definition of the catalog, whatever its
\* title; an absent, blank, unknown or aliased title gets the default wallet
\* tariff.
C16_LookupNeverFails ==
  \A k \in 1..Len(fare.insights) :
    /\ fare.insights[k].value.tariff \in {TARIFFS[i] : i \in 1..Len(TARIFFS)}
    /\ TitleOfInsight(k) \in DegradedTitles =>
         /\ fare.insights[k].value.tariff.name = FALLBACK_TARIFF_LABEL
         /\ fare.insights[k].value.tariff.kind = "wallet"

\* The tariffs of a record without title, one with an alias and one with an
\* unknown title have been looked up.
C16_Witness ==
  /\ Len(fare.insights) = 3
  /\ NullTitle \in {TitleOfInsight(k) : k \in 1..3}
  /\ "(em dash)" \in {TitleOfInsight(k) : k \in 1..3}
  /\ "Ti'tulo X" \in {TitleOfInsight(k) : k \in 1..3}

(***************************************************************************)
(* Bizkaibus line matching (part_004:655-775) and its module-level cache   *)
(* (part_001:254-285).  Texts are sequences of one-character strings; the  *)
(* precomposed letter a-acute is the element "a'".  The line catalog       *)
(* files/lineasbizkaibus.json is static data outside the modelled sources. *)
(***************************************************************************)
UPPER_CASE == << "A", "B", "G", "I", "K", "L", "M", "O", "S", "U", "X", "Z",
                "C", "D", "E", "J", "N", "P", "R", "T", "V" >>

LOWER_CASE == << "a", "b", "g", "i", "k", "l", "m", "o", "s", "u", "x", "z",
                "c", "d", "e", "j", "n", "p", "r", "t", "v" >>

\* String.prototype.toLowerCase on one character.
toLowerCase(c) ==
  IF \E i \in 1..Len(UPPER_CASE) : UPPER_CASE[i] = c
  THEN LOWER_CASE[CHOOSE i \in 1..Len(UPPER_CASE) : UPPER_CASE[i] = c]
  ELSE c

\* normalize('NFD') and the removal of the combining marks U+0300-U+036F,
\* on one character.
StripAccent(c) == IF c = "a'" THEN "a" ELSE c

\* [a-zA-Z0-9].
IsAlnum(c) ==
  c \in {UPPER_CASE[i] : i \in 1..Len(UPPER_CASE)}
          \cup {LOWER_CASE[i] : i \in 1..Len(LOWER_CASE)}
          \cup {"e", "t", "r", "0", "1", "2", "3", "4"}

toLowerCaseAll(text) == [i \in 1..Len(text) |-> toLowerCase(text[i])]

StripAccents(text) == [i \in 1..Len(text) |-> StripAccent(text[i])]

\* The stop name null.
NullName == << "(null)" >>

\* `!value`.
IsFalsy(value) == value \in {NullName, << >>}

normalizeBizkaibusComparable(value) ==
  IF IsFalsy(value) THEN << >>
  ELSE toLowerCaseAll(SelectSeq(StripAccents(value), IsAlnum))

collapseSpacesComparable(value) ==
  IF IsFalsy(value) THEN << >>
  ELSE toLowerCaseAll(SelectSeq(StripAccents(value), LAMBDA c : c # " "))

\* split(/\s+/) of a text whose separators are spaces: the maximal runs of
\* other characters, in order (the empty pieces at the ends have length 0
\* and do not pass the filter of tokenizeBizkaibusText).
SplitOnSpaces(text) ==
  LET starts == {i \in 1..Len(text) : text[i] # " " /\ (i = 1 \/ text[i - 1] = " ")}
      startOf(k) == CHOOSE i \in starts : Cardinality({j \in starts : j < i}) = k - 1
      endOf(i) == CHOOSE e \in i..Len(text) :
                    /\ \A j \in i..e : text[j] # " "
                    /\ (e = Len(text) \/ text[e + 1] = " ")
  IN  [k \in 1..Cardinality(starts) |-> SubSeq(text, startOf(k), endOf(startOf(k)))]

tokenizeBizkaibusText(value) ==
  IF IsFalsy(value) THEN << >>
  ELSE LET stripped == StripAccents(value)
           spaced == toLowerCaseAll([i \in 1..Len(stripped) |->
                                       IF IsAlnum(stripped[i]) THEN stripped[i] ELSE " "])
       IN  SelectSeq(SplitOnSpaces(spaced), LAMBDA token : Len(token) >= 3)

buildBizkaibusTokenSet(value) ==
  {tokenizeBizkaibusText(value)[i] : i \in 1..Len(tokenizeBizkaibusText(value))}

\* String.prototype.includes.
includes(text, searchString) ==
  \E i \in 0..(Len(text) - Len(searchString)) :
    SubSeq(text, i + 1, i + Len(searchString)) = searchString

Min(a, b) == IF a <= b THEN a ELSE b

scoreBizkaibusMatch(stopComparable, stopCollapsed, stopTokens, line) ==
  IF stopCollapsed # << >> /\ line.collapsedComparable # << >>
     /\ stopCollapsed = line.collapsedComparable
  THEN 1200 + Len(stopCollapsed)
  ELSE IF stopComparable = << >> \/ line.normalizedComparable = << >> THEN 0
  ELSE IF stopComparable = line.normalizedComparable THEN 1000 + Len(stopComparable)
  ELSE IF includes(stopComparable, line.normalizedComparable)
          \/ includes(line.normalizedComparable, stopComparable)
  THEN 500 + Min(Len(stopComparable), Len(line.normalizedComparable))
  ELSE IF Len(stopTokens) = 0 \/ line.tokenSet = {} THEN 0
  ELSE LET shared == {i \in 1..Len(stopTokens) : stopTokens[i] \in line.tokenSet}
           sharedCount == Cardinality(shared)
           largestToken == IF shared = {} THEN 0
                           ELSE CHOOSE n \in {Len(stopTokens[i]) : i \in shared} :
                                  \A i \in shared : Len(stopTokens[i]) <= n
       IN  IF sharedCount >= 2 THEN sharedCount * 10
           ELSE IF sharedCount = 1 /\ largestToken >= 6 THEN largestToken
           ELSE 0

\* The lines of the catalog: code and description, one of them blank.
BIZKAIBUS_JSON ==
  << [code |-> << "A", "1" >>,
      description |-> << "B", "i", "l", "b", "a", "o", " ", "G", "e", "t", "x", "o" >>],
     [code |-> << "A", "0" >>, description |-> << " " >>],
     [code |-> << "A", "2" >>,
      description |-> << "B", "i", "l", "b", "a", "o", "-", "M", "u", "s", "k", "i", "z", " " >>] >>

parseBizkaibusJson(payload) ==
  LET parsed == [i \in 1..Len(payload) |->
                   [code |-> trim(payload[i].code),
                    description |-> trim(payload[i].description),
                    normalizedComparable |->
                      normalizeBizkaibusComparable(trim(payload[i].description)),
                    collapsedComparable |-> collapseSpacesComparable(trim(payload[i].description)),
                    tokenSet |-> buildBizkaibusTokenSet(trim(payload[i].description))]]
  IN  SelectSeq(parsed, LAMBDA line : line.code # << >> /\ line.description # << >>)

BIZKAIBUS_LINES == parseBizkaibusJson(BIZKAIBUS_JSON)

\* BIZKAIBUS_LINES.forEach: the first n lines, on best = [score, match].
RECURSIVE BestLine(_, _, _, _, _)
BestLine(lines, n, comparable, collapsed, tokens) ==
  IF n = 0 THEN [score |-> 0, match |-> None]
  ELSE LET best == BestLine(lines, n - 1, comparable, collapsed, tokens)
           score == scoreBizkaibusMatch(comparable, collapsed, tokens, lines[n])
       IN  IF score > best.score
           THEN [score |-> score,
                 match |-> Some([code |-> lines[n].code, description |-> lines[n].description])]
           ELSE best

CacheKey_Comparable(name) == normalizeBizkaibusComparable(name)

\* The key of the cache is the stop name as given.
CacheKey(name) == name

\* resolveBizkaibusLine on the cache `cache` and the catalog `lines`: the
\* value returned and the cache afterwards.
resolveBizkaibusLine(lines, cache, name) ==
  IF IsFalsy(name) \/ Len(lines) = 0 THEN [result |-> None, cache |-> cache]
  ELSE IF MapHas(cache, CacheKey(name))
  THEN [result |-> MapGet(cache, CacheKey(name))[1], cache |-> cache]
  ELSE IF normalizeBizkaibusComparable(name) = << >>
  THEN [result |-> None, cache |-> MapSet(cache, CacheKey(name), None)]
  ELSE LET best == BestLine(lines, Len(lines), normalizeBizkaibusComparable(name),
                            collapseSpacesComparable(name), tokenizeBizkaibusText(name))
       IN  [result |-> best.match, cache |-> MapSet(cache, CacheKey(name), best.match)]

MaxCached == 3

\* The stop names (record.equipo) of the calls.
StopNames ==
  { NullName,
    << >>,
    << "-", "-" >>,
    << "B", "i", "l", "b", "a", "o", " ", "G", "e", "t", "x", "o" >>,
    << "B", "I", "L", "B", "A", "O", " ", "M", "U", "S", "K", "I", "Z" >>,
    << "G", "e", "t", "x", "o" >>,
    << "M", "u", "s", "k", "i", "z", " ", "2" >>,
    << "G", "e", "t", "x", "o", " ", "(", "B", "i", "l", "b", "a'", "o", ")" >>,
    << "G", "e", "t", "x", "o", "b", "i", "l", "b", "a", "o" >>,
    << "B", "i", "l", "b", "a", "o" >>,
    << "A", "r", "e", "e", "t", "a" >> }

\* part_001:826: one call resolveBizkaibusLine(record.equipo) of
\* computeAnnualSummary; the caller reads the match and changes nothing.
CallResolveBizkaibusLine ==
  /\ pc = "lines"
  /\ \E name \in StopNames :
       LET call == resolveBizkaibusLine(BIZKAIBUS_LINES, bizkaibusLineCache, name)
       IN  /\ Len(call.cache) <= MaxCached
           /\ stopName' = name
           /\ lineMatch' = call.result
           /\ bizkaibusLineCache' = call.cache
  /\ UNCHANGED << pipelineVars, metroVars, tableVars, streakVars, tripVars >>

NextCache == CallResolveBizkaibusLine

InitCache ==
  /\ records = << >>
  /\ pc = "lines"
  /\ sorted = << >>
  /\ idx = 1
  /\ fare = FareStart
  /\ jst = JourneyStart
  /\ journeys = << >>
  /\ stats = createJourneyStats
  /\ part = {}
  /\ rollup = createJourneyStats
  /\ mFrom = ""
  /\ mTo = ""
  /\ search = NoSearch
  /\ mpc = "idle"
  /\ TableIdle
  /\ StreakIdle
  /\ CacheIdle
  /\ TripsIdle

SpecCache == InitCache /\ [][NextCache]_vars

\* The match of a stop name computed against the catalog, without cache.
MatchFromScratch(name) == resolveBizkaibusLine(BIZKAIBUS_LINES, << >>, name).result

\* C17: whatever earlier calls left in the cache, the value returned for a
\* stop name, and every value held in the cache, is the match computed from
\* scratch against the line catalog, so that the calls of a second run of
\* computeAnnualSummary return what those of the first run returned.
C17_CacheEqualsFromScratch ==
  /\ lineMatch = MatchFromScratch(stopName)
  /\ \A i \in 1..Len(bizkaibusLineCache) :
       \E name \in StopNames :
         /\ bizkaibusLineCache[i].key = name
         /\ bizkaibusLineCache[i].value = MatchFromScratch(name)

\* A call answered from the cache returned a line, while the cache also
\* holds a stop name without line.
C17_Witness ==
  /\ MapHas(bizkaibusLineCache, stopName)
  /\ bizkaibusLineCache[1].key = stopName
  /\ Len(bizkaibusLineCache) = 3
  /\ IsSome(lineMatch)
  /\ \E i \in 1..3 : bizkaibusLineCache[i].value = None

(***************************************************************************)
(* The pending-entry slot of buildJourneyBlocks.                           *)
(***************************************************************************)
ProcessedAsEntry(record) ==
  /\ isEntryValidation(record)
  /\ ~isRecargaTransaction(record)
  /\ ~isSingleValidation(record)

\* The position of the last record of sorted[1..n] that takes the entry
\* branch, 0 when there is none.
LastEntryIndex(n) ==
  IF \E j \in 1..n : ProcessedAsEntry(sorted[j])
  THEN CHOOSE j \in 1..n :
         /\ ProcessedAsEntry(sorted[j])
         /\ \A k \in (j + 1)..n : ~ProcessedAsEntry(sorted[k])
  ELSE 0

\* C18: there is one pending-entry slot for all operators.  The pending entry
\* is always the most recent entry of the input so far; an entry that arrives
\* while another is pending emits the older one as a viaje-unico of its own
\* and becomes the pending one; an exit within 10 hours of the pending entry
\* pairs with it, the most recent entry, whatever the operators of the two.
C18_SinglePendingSlot ==
  [][(pc = "journeys" /\ idx <= Len(sorted))
     => LET record == sorted[idx]
            before == Len(jst.journeys)
            after == jst'.journeys
        IN  /\ IsSome(jst.pendingEntry) =>
                 /\ LastEntryIndex(idx - 1) > 0
                 /\ jst.pendingEntry[1] = sorted[LastEntryIndex(idx - 1)]
            /\ (ProcessedAsEntry(record) /\ IsSome(jst.pendingEntry)) =>
                 /\ Len(after) = before + 1
                 /\ SubSeq(after, 1, before) = jst.journeys
                 /\ after[before + 1].kind = "viaje-unico"
                 /\ after[before + 1].start = jst.pendingEntry[1]
                 /\ after[before + 1].records = << jst.pendingEntry[1] >>
                 /\ jst'.pendingEntry = Some(record)
            /\ (ProcessedAsExit(record) /\ IsSome(jst.pendingEntry)
                  /\ record.time - jst.pendingEntry[1].time <= TEN_HOURS_MS) =>
                 /\ Len(after) = before + 1
                 /\ after[before + 1].kind = "viaje"
                 /\ after[before + 1].start = sorted[LastEntryIndex(idx - 1)]
                 /\ after[before + 1].end = Some(record)
                 /\ jst'.pendingEntry = None]_vars

\* C18 witness: an entry on one operator was orphaned by an entry on another
\* operator, and that second entry was paired with an exit on the first
\* operator.
C18_Witness ==
  /\ pc = "journeys"
  /\ Len(jst.journeys) = 2
  /\ jst.journeys[1].reason = "entrada-sin-salida"
  /\ jst.journeys[2].kind = "viaje"
  /\ jst.journeys[2].start.operador # jst.journeys[1].start.operador
  /\ jst.journeys[2].start.operador # jst.journeys[2].end[1].operador

\* The kind of the journey a record is emitted as at once: a recharge, a
\* single-tap validation, or a record of no recognised type; "" for entries
\* and exits.
ImmediateKind(record) ==
  IF isRecargaTransaction(record) THEN "recarga"
  ELSE IF isSingleValidation(record) THEN "viaje-unico"
  ELSE IF isEntryValidation(record) \/ isExitValidation(record) THEN ""
  ELSE "otros"

\* C19: a recharge, a single-tap validation and an unrecognised record each
\* add one journey of their own (recarga, viaje-unico, otros) with that one
\* record and leave the pending entry as it was; so an entry, then only such
\* records, then an exit within 10 hours, are paired into one viaje.
C19_ImmediateKeepsPending ==
  [][(pc = "journeys" /\ idx <= Len(sorted))
     => LET record == sorted[idx]
            before == Len(jst.journeys)
            after == jst'.journeys
        IN  /\ ImmediateKind(record) # "" =>
                 /\ Len(after) = before + 1
                 /\ SubSeq(after, 1, before) = jst.journeys
                 /\ after[before + 1].kind = ImmediateKind(record)
                 /\ after[before + 1].start = record
                 /\ after[before + 1].end = None
                 /\ after[before + 1].records = << record >>
                 /\ jst'.pendingEntry = jst.pendingEntry
            /\ \A i \in 1..(idx - 1) :
                 (/\ ProcessedAsEntry(sorted[i])
                  /\ ProcessedAsExit(record)
                  /\ \A k \in (i + 1)..(idx - 1) : ImmediateKind(sorted[k]) # ""
                  /\ record.time - sorted[i].time <= TEN_HOURS_MS)
                 => /\ Len(after) = before + 1
                    /\ after[before + 1].kind = "viaje"
                    /\ after[before + 1].start = sorted[i]
                    /\ after[before + 1].end = Some(record)]_vars

\* C19 witness: an entry, then a record emitted on its own (one run with a
\* single-tap validation, one with an unrecognised record), then the exit
\* paired with the entry.
C19_Witness ==
  /\ pc = "journeys"
  /\ Len(jst.journeys) = 2
  /\ jst.journeys[1].kind \in {"viaje-unico", "otros"}
  /\ jst.journeys[1].reason \in {"unica", "otros"}
  /\ jst.journeys[2].kind = "viaje"
  /\ jst.journeys[2].start.time < jst.journeys[1].start.time
  /\ jst.journeys[2].end[1].time > jst.journeys[1].start.time

(***************************************************************************)
(* The ignore flag of a limited pass: purchases of the limited pass, exits, *)
(* single-tap rides and entries on it, enough of them to use the pass up.  *)
(***************************************************************************)
MaxTripRecords == 5

TripPool ==
  { Rec(1, 1, 0, CompraTitulo, "Metro Bilbao", "Bono", 1000),
    Rec(1, 2, 300, Salida, "Metro Bilbao", "Bono", 0),
    Rec(1, 3, 600, Unica, "Bilbobus", "Bono", -125),
    Rec(1, 4, 1200, Entrada, "Metro Bilbao", " bono ", -125) }

InitTrips == InitPipeline(UNION {[1..n -> TripPool] : n \in 0..MaxTripRecords})

SpecTrips == InitTrips /\ [][Next]_vars

\* The pass state of the tariff of the record that buildFareInsights is about
\* to process, if that tariff has a limited pass.
PassAtRecord ==
  LET found == MapGet(fare.passStates, TariffNameOf(sorted[idx]))
  IN  IF IsSome(found) /\ found[1].kind = "limited-pass" THEN found ELSE None

\* C20: a purchase of a limited pass sets the ignore flag and all its trips.
\* Of the entries and single-tap rides on the tariff that follow, the first
\* leaves the remaining trips and clears the flag, each later one takes one
\* trip, never below 0, and the flag stays clear; an exit changes neither the
\* remaining trips nor the flag.
C20_IgnoreFlagConsumedOnce ==
  [][(pc = "fare" /\ idx <= Len(sorted))
     => LET record == sorted[idx]
            name == TariffNameOf(record)
            after == MapGet(fare'.passStates, name)
        IN  IF IsPurchaseOf(record, name)
            THEN /\ IsSome(after)
                 /\ after[1].kind = "limited-pass" =>
                      /\ after[1].ignoreNextEntry
                      /\ after[1].remainingTrips = after[1].totalTrips
            ELSE IF ~IsSome(PassAtRecord) THEN fare'.passStates = fare.passStates
            ELSE IF isEntryValidation(record) \/ isSingleValidation(record)
            THEN /\ ~after[1].ignoreNextEntry
                 /\ after[1].remainingTrips =
                      (IF PassAtRecord[1].ignoreNextEntry THEN PassAtRecord[1].remainingTrips
                       ELSE IF PassAtRecord[1].remainingTrips[1] = 0 THEN Some(0)
                       ELSE Some(PassAtRecord[1].remainingTrips[1] - 1))
            ELSE fare'.passStates = fare.passStates]_vars

\* C20 witness: four rides after the purchase of the pass of two trips: the
\* first consumed the flag, the next two took the two trips, and the fourth
\* found no trip left and the pass stays at 0.
C20_Witness ==
  /\ pc = "fare"
  /\ idx = 6
  /\ IsPurchaseOf(sorted[1], TariffNameOf(sorted[1]))
  /\ \A i \in 2..5 : isEntryValidation(sorted[i]) \/ isSingleValidation(sorted[i])
  /\ fare.passStates[1].value.remainingTrips = Some(0)
  /\ ~fare.passStates[1].value.ignoreNextEntry

(***************************************************************************)
(* The insights of buildFareInsights after they are stored.                *)
(***************************************************************************)
\* C21: an insight is not changed after it is stored: processing a record
\* leaves the insight of every other record key as it was, pass context and
\* limited context included, whatever it does to the live pass states, and
\* nothing after buildFareInsights has returned changes the insights.
C21_InsightsNeverChanged ==
  [][/\ (pc = "fare" /\ idx <= Len(sorted)) =>
          /\ Len(fare'.insights) >= Len(fare.insights)
          /\ \A i \in 1..Len(fare.insights) :
               fare.insights[i].key # getRecordKey(sorted[idx])
                 => fare'.insights[i] = fare.insights[i]
     /\ FareReturned => fare'.insights = fare.insights]_vars

\* C21 witness: the insight of the first ride on a limited pass still shows
\* all its trips, in pass context and limited context, after a later ride
\* has taken a trip from the live pass state.
C21_Witness ==
  /\ pc = "fare"
  /\ Len(fare.insights) = 3
  /\ Len(fare.passStates) = 1
  /\ fare.passStates[1].value.remainingTrips = Some(TripLimit - 1)
  /\ fare.insights[2].value.usageKind = "ride"
  /\ fare.insights[2].value.passContext[1].remainingTrips = Some(TripLimit)
  /\ fare.insights[2].value.limitedContext[1].remainingTrips = Some(TripLimit)
  /\ fare.insights[3].value.limitedContext[1].remainingTrips = Some(TripLimit - 1)

(***************************************************************************)
(* Two pass tariffs side by side: purchases of the limited and of the      *)
(* monthly pass, rides on each, and a wallet recharge that carries the     *)
(* title of the limited pass.                                              *)
(***************************************************************************)
TwoPassPool ==
  { Rec(1, 1, 0, CompraTitulo, "Metro Bilbao", "Bono", 1000),
    Rec(1, 2, 60, CompraTitulo, "Metro Bilbao", "Mensual", 3000),
    Rec(1, 3, 600, Unica, "Bilbobus", "Bono", -125),
    Rec(1, 4, 700, Entrada, "Metro Bilbao", "Mensual", -155),
    Rec(1, 5, 800, RecargaMonedero, "Metro Bilbao", "Bono", 2000) }

InitTwoPasses == InitPipeline(UNION {[1..n -> TwoPassPool] : n \in 0..MaxPassRecords})

SpecTwoPasses == InitTwoPasses /\ [][NextSummary]_vars

\* C22: a wallet recharge changes no pass state; any record leaves the pass
\* state of every tariff but its own unchanged; and the remaining trips of a
\* pass go down only at an entry or single-tap ride whose title resolves to
\* the tariff of that pass.
C22_OtherPassesUnchanged ==
  [][(pc = "fare" /\ idx <= Len(sorted))
     => LET record == sorted[idx]
            name == TariffNameOf(record)
        IN  /\ isWalletRechargeRecord(record) => fare'.passStates = fare.passStates
            /\ Len(fare'.passStates) >= Len(fare.passStates)
            /\ \A i \in 1..Len(fare.passStates) :
                 /\ fare.passStates[i].key # name => fare'.passStates[i] = fare.passStates[i]
                 /\ (/\ IsSome(fare.passStates[i].value.remainingTrips)
                     /\ fare'.passStates[i].value.remainingTrips
                          # fare.passStates[i].value.remainingTrips)
                    => /\ fare.passStates[i].key = name
                       /\ ~isWalletRechargeRecord(record)
                       /\ \/ IsPurchaseOf(record, name)
                          \/ isEntryValidation(record)
                          \/ isSingleValidation(record)]_vars

\* C22 witness: with both passes bought, a ride on the monthly pass and a
\* wallet recharge titled as the limited pass have been processed, and the
\* limited pass still has its flag and all its trips.
C22_Witness ==
  /\ pc = "fare"
  /\ idx = 5
  /\ Len(fare.passStates) = 2
  /\ \E i \in 3..4 : isWalletRechargeRecord(sorted[i])
  /\ \E i \in 3..4 : isEntryValidation(sorted[i]) /\ TariffNameOf(sorted[i]) = "MENSUAL"
  /\ \E i \in 1..2 :
       /\ fare.passStates[i].key = "BONO"
       /\ fare.passStates[i].value.ignoreNextEntry
       /\ fare.passStates[i].value.remainingTrips = Some(TripLimit)

\* The record that buildFareInsights is about to process takes the ride
\* branch: it is neither a wallet recharge nor the purchase of a pass.
AtRide ==
  /\ pc = "fare"
  /\ idx <= Len(sorted)
  /\ ~isWalletRechargeRecord(sorted[idx])
  /\ ~IsPurchaseOf(sorted[idx], TariffNameOf(sorted[idx]))

\* C23: the insight of a ride has for savingsAmount the absolute value of the
\* record's amount when the record's tariff has a pass state and the record
\* is an entry or a single-tap validation, and none in every other case.
C23_SavingsUnderPass ==
  [][AtRide
     => LET record == sorted[idx]
            insight == MapGet(fare'.insights, getRecordKey(record))
            underPass == MapHas(fare.passStates, TariffNameOf(record))
            amount == IF record.importe < 0 THEN 0 - record.importe ELSE record.importe
        IN  /\ IsSome(insight)
            /\ insight[1].usageKind = "ride"
            /\ insight[1].savingsAmount =
                 (IF underPass /\ (isEntryValidation(record) \/ isSingleValidation(record))
                  THEN Some(amount) ELSE None)]_vars

\* C23 witness: after the purchase of a pass, a single-tap ride on it has its
\* amount as savings and an exit on it has none, though it has a pass
\* context.
C23_Witness ==
  /\ pc = "fare"
  /\ Len(fare.insights) = 3
  /\ fare.insights[1].value.usageKind = "title-recharge"
  /\ fare.insights[2].value.savingsAmount = Some(125)
  /\ isExitValidation(sorted[3])
  /\ IsSome(fare.insights[3].value.passContext)
  /\ fare.insights[3].value.savingsAmount = None

(***************************************************************************)
(* Statistics over recharges, purchases and rides with and without a pass: *)
(* the purchase of the limited pass, a ride on it, wallet rides, a pair on *)
(* the wallet, a wallet recharge, the purchase of the wallet title and a   *)
(* record of no recognised type that carries an amount.                    *)
(***************************************************************************)
SpentPool ==
  { Rec(1, 1, 0, CompraTitulo, "Metro Bilbao", "Bono", 1000),
    Rec(1, 2, 600, Unica, "Bilbobus", "Bono", -125),
    Rec(1, 3, 700, Unica, "Bilbobus", "Creditrans barik", -96),
    Rec(1, 4, 800, Entrada, "Metro Bilbao", "Creditrans barik", -155),
    Rec(1, 5, 1400, Salida, "Metro Bilbao", "Creditrans barik", -10),
    Rec(1, 6, 1500, RecargaMonedero, "Metro Bilbao", "Monedero Creditrans", 2000),
    Rec(1, 7, 1600, CompraTitulo, "Metro Bilbao", "Creditrans barik", 500),
    Rec(1, 8, 1700, Anulacion, "Metro Bilbao", "Creditrans barik", -50) }

InitSpent == InitPipeline(InputsOf(SpentPool))

SpecSpent == InitSpent /\ [][NextSummary]_vars

AbsCents(cents) == IF cents < 0 THEN 0 - cents ELSE cents

\* The fare insight of the record has a pass context.
HasPassContext(record) ==
  \E i \in 1..Len(fare.insights) :
    /\ fare.insights[i].key = getRecordKey(record)
    /\ IsSome(fare.insights[i].value.passContext)

\* The amounts, in cents, that a journey adds to spent.
SpentOfJourney(journey) ==
  IF journey.kind = "recarga" THEN << AbsCents(journey.start.importe) >>
  ELSE IF journey.kind \in {"viaje", "viaje-unico"}
  THEN LET paid == SelectSeq(journey.records, LAMBDA record : ~HasPassContext(record))
       IN  [i \in 1..Len(paid) |-> AbsCents(paid[i].importe)]
  ELSE << >>

RECURSIVE SpentAmounts(_, _)
SpentAmounts(journeyList, n) ==
  IF n = 0 THEN << >>
  ELSE SpentAmounts(journeyList, n - 1) \o SpentOfJourney(journeyList[n])

\* The sum of amounts, added as doubles in their order.
RECURSIVE DblSum(_, _)
DblSum(amounts, n) ==
  IF n = 0 THEN DblZero
  ELSE DblAdd(DblSum(amounts, n - 1), Number_parseFloat(amounts[n]))

StatsThere == pc \in {"rollup", "streak", "summary", "done"}

\* C24: spent is the sum of the absolute amounts of the start records of the
\* recarga journeys and of the records of viaje and viaje-unico journeys
\* whose insight has no pass context; records under a pass context and otros
\* journeys add nothing.
C24_SpentIsRechargesPlusPaidRides ==
  StatsThere =>
    stats.spent = DblSum(SpentAmounts(journeys, Len(journeys)),
                         Len(SpentAmounts(journeys, Len(journeys))))

\* C24 witness: statistics over the purchase of the pass, a ride under it and
\* a record of no recognised type with an amount: spent is the price of the
\* pass alone.
C24_Witness ==
  /\ StatsThere
  /\ Len(journeys) = 3
  /\ {journeys[i].kind : i \in 1..3} = {"recarga", "viaje-unico", "otros"}
  /\ \E i \in 1..3 : journeys[i].kind = "viaje-unico" /\ HasPassContext(journeys[i].start)
  /\ stats.spent = Number_parseFloat(1000)

\* The journeys of kind recarga whose start record has an insight of the
\* usage kind title-recharge.
TitleRechargeJourneys ==
  {i \in 1..Len(journeys) :
     /\ journeys[i].kind = "recarga"
     /\ \E k \in 1..Len(fare.insights) :
          /\ fare.insights[k].key = getRecordKey(journeys[i].start)
          /\ fare.insights[k].value.usageKind = "title-recharge"}

RecargaJourneys == {i \in 1..Len(journeys) : journeys[i].kind = "recarga"}

\* C25: every recarga journey counts once, as a title purchase when the
\* insight of its start record has the usage kind title-recharge and as a
\* wallet recharge otherwise; a title purchase whose title resolves to a
\* wallet tariff has no such insight and counts as a wallet recharge.
C25_RechargeCountedOnce ==
  StatsThere =>
    /\ stats.titlePurchases = Cardinality(TitleRechargeJourneys)
    /\ stats.walletRecharges = Cardinality(RecargaJourneys \ TitleRechargeJourneys)
    /\ stats.titlePurchases + stats.walletRecharges = Cardinality(RecargaJourneys)
    /\ \A i \in RecargaJourneys :
         (/\ isTitleRechargeRecord(journeys[i].start)
          /\ getTariffInfoFromTitle(journeys[i].start.titulo).kind = "wallet"
          /\ ~isWalletRechargeRecord(journeys[i].start))
         => i \notin TitleRechargeJourneys

\* C25 witness: the purchase of the pass, the purchase of the wallet title
\* and a wallet recharge give one title purchase and two wallet recharges.
C25_Witness ==
  /\ StatsThere
  /\ Len(journeys) = 3
  /\ \E i \in 1..3 :
       /\ isTitleRechargeRecord(journeys[i].start)
       /\ getTariffInfoFromTitle(journeys[i].start.titulo).kind = "wallet"
  /\ stats.titlePurchases = 1
  /\ stats.walletRecharges = 2

\* The savings, in cents, stored in the insight of the record; none when the
\* insight has no savingsAmount.
SavingsOf(record) ==
  LET found == MapGet(fare.insights, getRecordKey(record))
  IN  IF IsSome(found) THEN found[1].savingsAmount ELSE None

\* The records of the viaje and viaje-unico journeys, in the order of the
\* journeys.
RECURSIVE RideRecords(_, _)
RideRecords(journeyList, n) ==
  IF n = 0 THEN << >>
  ELSE RideRecords(journeyList, n - 1)
         \o (IF journeyList[n].kind \in {"viaje", "viaje-unico"}
             THEN journeyList[n].records ELSE << >>)

ExpiredPool ==
  { Rec(1, 1, 0, CompraTitulo, "Metro Bilbao", "Bono", 1000),
    Rec(1, 2, 600, Unica, "Bilbobus", "Bono", -125),
    Rec(1, 3, (PASS_VALID_DAYS + 10) * DAY_MS, Unica, "Bilbobus", "Bono", -125),
    Rec(1, 4, (PASS_VALID_DAYS + 10) * DAY_MS + 600, Salida, "Metro Bilbao", "Bono", 0) }

InitExpired == InitPipeline(UNION {[1..n -> ExpiredPool] : n \in 0..MaxTripRecords})

SpecExpired == InitExpired /\ [][NextSummary]_vars

\* C28: a pass state is never removed.  Every later ride record on its tariff
\* has a pass context, and its amount as savings if it is an entry or a
\* single-tap validation, also after the expiry of the pass, when
\* daysRemaining is 0, and with no trips left, when the remaining trips stay
\* at 0; and the amounts of these rides are not in spent, which holds the
\* purchases alone.
C28_PassNeverDeactivated ==
  [][/\ (pc = "fare" /\ idx <= Len(sorted)) =>
          \A i \in 1..Len(fare.passStates) :
            /\ Len(fare'.passStates) >= i
            /\ fare'.passStates[i].key = fare.passStates[i].key
     /\ (AtRide /\ MapHas(fare.passStates, TariffNameOf(sorted[idx]))) =>
          LET record == sorted[idx]
              pass == MapGet(fare.passStates, TariffNameOf(record))[1]
              insight == MapGet(fare'.insights, getRecordKey(record))[1]
              isEntry == isEntryValidation(record) \/ isSingleValidation(record)
          IN  /\ IsSome(insight.passContext)
              /\ isEntry => insight.savingsAmount = Some(AbsCents(record.importe))
              /\ (IsSome(pass.expiresAt) /\ record.time >= pass.expiresAt[1]) =>
                   insight.daysRemaining = Some(0)
              /\ pass.remainingTrips = Some(0) =>
                   /\ insight.limitedContext[1].remainingTrips = Some(0)
                   /\ MapGet(fare'.passStates, TariffNameOf(record))[1].remainingTrips = Some(0)
     /\ (pc = "rollup" /\ Len(sorted) > 0 /\ IsPurchaseOf(sorted[1], "BONO")) =>
          LET purchases == SelectSeq(sorted, LAMBDA record : IsPurchaseOf(record, "BONO"))
          IN  stats.spent = DblSum([i \in 1..Len(purchases) |-> AbsCents(purchases[i].importe)],
                                   Len(purchases))]_vars

\* C28 witness: a ride ten days after the expiry of a pass with no trips
\* left has been processed: it has a pass context, its amount as savings, no
\* day and no trip remaining.
C28_Witness ==
  /\ pc = "fare"
  /\ idx = 6
  /\ LET insight == MapGet(fare.insights, getRecordKey(sorted[5]))[1]
     IN  /\ sorted[5].time > PASS_VALID_DAYS * DAY_MS
         /\ IsSome(insight.passContext)
         /\ insight.savingsAmount = Some(125)
         /\ insight.daysRemaining = Some(0)
         /\ insight.limitedContext[1].remainingTrips = Some(0)
         /\ sorted[4].time < DAY_MS
         /\ MapGet(fare.insights, getRecordKey(sorted[4]))[1].limitedContext[1].remainingTrips
              = Some(0)

(***************************************************************************)
(* findMetroPath between two distinct connected stations.                  *)
(***************************************************************************)

\* Two stations joined by an edge of the graph, in either direction.
Adjacent(a, b) ==
  \/ \E i \in 1..Len(Neighbors(a)) : Neighbors(a)[i] = b
  \/ \E i \in 1..Len(Neighbors(b)) : Neighbors(b)[i] = a

\* The stations at most n edges away from a station.
RECURSIVE Ball(_, _)
Ball(from, n) ==
  IF n = 0 THEN {from}
  ELSE LET inner == Ball(from, n - 1)
       IN  inner \cup {c \in GraphCodes : \E b \in inner : Adjacent(b, c)}

Connected(from, to) == to \in Ball(from, Cardinality(GraphCodes))

\* The least number of edges between two connected stations.
MetroDistance(from, to) ==
  CHOOSE n \in 0..Cardinality(GraphCodes) :
    /\ to \in Ball(from, n)
    /\ n = 0 \/ to \notin Ball(from, n - 1)

\* What is left for the while loop to do: the stations not yet visited plus
\* the queue entries not yet taken.
SearchMeasure(s) == Cardinality(GraphCodes \ s.visited) + Len(s.queue)

ShortestSimplePath(path, from, to) ==
  /\ path # << >>
  /\ path[1] = from
  /\ path[Len(path)] = to
  /\ \A i \in 1..(Len(path) - 1) : Adjacent(path[i], path[i + 1])
  /\ \A i, j \in 1..Len(path) : i # j => path[i] # path[j]
  /\ Len(path) = MetroDistance(from, to) + 1

\* C26: for distinct connected stations findMetroPath returns a list that
\* starts at from, ends at to, steps only between adjacent stations, repeats
\* no station and has the least possible number of stations; every iteration
\* of the search loop lowers by one a measure that is never negative, so the
\* search terminates.
C26_ShortestPathAndTermination ==
  [][/\ (/\ mpc' = "returned"
         /\ mFrom # mTo
         /\ mFrom \in GraphCodes
         /\ mTo \in GraphCodes
         /\ Connected(mFrom, mTo))
          => ShortestSimplePath(search'.result[1], mFrom, mTo)
     /\ (mpc = "search" /\ mpc' = "search")
          => /\ SearchMeasure(search') = SearchMeasure(search) - 1
             /\ SearchMeasure(search') >= 0]_vars

C26_Witness ==
  /\ mpc = "returned"
  /\ mFrom = "KAB"
  /\ mTo = "KUK"
  /\ Connected(mFrom, mTo)
  /\ Len(search.result[1]) = 10
  /\ ShortestSimplePath(search.result[1], mFrom, mTo)


(***************************************************************************)
(* The metro trips of computeAnnualSummary (part_001:906-939, 1068-1085)   *)
(* and the station names of metroUtils.ts.  The names of the stations are  *)
(* part of the static layout data outside the modelled sources.            *)
(***************************************************************************)
STATION_NAMES ==
  <<
     [code |-> "PLE", name |-> << "P", "l", "e", "n", "t", "z", "i", "a" >>],
     [code |-> "SOP", name |-> << "S", "o", "p", "e", "l", "a" >>],
     [code |-> "LUT", name |-> << "L", "u", "t", "x", "a", "n", "a" >>],
     [code |-> "SIN", name |-> << "S", "a", "n", " ", "I", "g", "n", "a", "z", "i", "o" >>],
     [code |-> "DEU", name |-> << "D", "e", "u", "s", "t", "o" >>],
     [code |-> "ABA", name |-> << "A", "b", "a", "n", "d", "o" >>],
     [code |-> "CAV", name |-> << "Z", "a", "z", "p", "i", "k", "a", "l", "e", "a", "k", "/", "C", "a", "s", "c", "o", " ", "V", "i", "e", "j", "o" >>],
     [code |-> "BOL", name |-> << "B", "o", "l", "u", "e", "t", "a" >>],
     [code |-> "ETX", name |-> << "E", "t", "x", "e", "b", "a", "r", "r", "i" >>],
     [code |-> "KAB", name |-> << "K", "a", "b", "i", "e", "z", "e", "s" >>],
     [code |-> "SES", name |-> << "S", "e", "s", "t", "a", "o" >>],
     [code |-> "GUR", name |-> << "G", "u", "r", "u", "t", "z", "e", "t", "a", "/", "C", "r", "u", "c", "e", "s" >>],
     [code |-> "ARZ", name |-> << "A", "r", "i", "z" >>],
     [code |-> "BAS", name |-> << "B", "a", "s", "a", "u", "r", "i" >>],
     [code |-> "MAT", name |-> << "M", "a", "t", "i", "k", "o" >>],
     [code |-> "URI", name |-> << "U", "r", "i", "b", "a", "r", "r", "i" >>],
     [code |-> "ZAZ", name |-> << "Z", "u", "r", "b", "a", "r", "a", "n", "b", "a", "r", "r", "i" >>],
     [code |-> "TXU", name |-> << "T", "x", "u", "r", "d", "i", "n", "a", "g", "a" >>],
     [code |-> "KUK", name |-> << "K", "u", "k", "u", "l", "l", "a", "g", "a" >>]
  >>

StationName(code) ==
  STATION_NAMES[CHOOSE i \in 1..Len(STATION_NAMES) : STATION_NAMES[i].code = code].name

\* MetroDiagram.tsx 751: the layout, one element per positioned station.
METRO_STATION_LAYOUT ==
  [i \in 1..Len(ALL_POSITIONED_STATIONS) |->
     [code |-> ALL_POSITIONED_STATIONS[i].code,
      name |-> StationName(ALL_POSITIONED_STATIONS[i].code)]]

\* metroUtils.ts 11.
METRO_STATION_BY_CODE == KeysByCode(METRO_STATION_LAYOUT)

\* metroUtils.ts 13-21: NFD, then only [a-zA-Z0-9] is kept (the combining
\* marks go with the other characters), then lower case.
normalizeMetroComparable(value) ==
  IF IsFalsy(value) THEN << >>
  ELSE toLowerCaseAll(SelectSeq(StripAccents(value), IsAlnum))

\* split('/'): the pieces between the slashes, in order; the empty ones do
\* not pass filter(Boolean) after normalisation.
SplitOnSlash(text) ==
  LET starts == {i \in 1..Len(text) : text[i] # "/" /\ (i = 1 \/ text[i - 1] = "/")}
      EndOf(i) == CHOOSE j \in i..Len(text) :
                    /\ \A k \in i..j : text[k] # "/"
                    /\ j = Len(text) \/ text[j + 1] = "/"
  IN  [k \in 1..Cardinality(starts) |->
         LET i == CHOOSE i \in starts : Cardinality({j \in starts : j <= i}) = k
         IN  SubSeq(text, i, EndOf(i))]

\* metroUtils.ts 25-39: the keys one station offers, in the order the code
\* tries them: its whole name, then each part of it.
KeysOfStation(station) ==
  LET segments == SplitOnSlash(station.name)
  IN  << [key |-> normalizeMetroComparable(station.name), code |-> station.code] >>
        \o [k \in 1..Len(segments) |->
              [key |-> normalizeMetroComparable(segments[k]), code |-> station.code]]

RECURSIVE KeysOfLayout(_, _)
KeysOfLayout(layout, n) ==
  IF n = 0 THEN << >> ELSE KeysOfLayout(layout, n - 1) \o KeysOfStation(layout[n])

\* metroUtils.ts 41-59, the aliases of the model's stations and two of
\* stations the layout of the model does not have.
manualAliases ==
  <<
     [key |-> << "c", "a", "s", "c", "o" >>, code |-> "CAV"],
     [key |-> << "c", "r", "u", "c", "e", "s" >>, code |-> "GUR"],
     [key |-> << "a", "b", "a", "n", "d", "o" >>, code |-> "ABA"],
     [key |-> << "s", "a", "n", "m", "a", "m", "e", "s" >>, code |-> "SAM"],
     [key |-> << "u", "r", "i", "b", "a", "r", "r", "i" >>, code |-> "ZZB"]
  >>

\* metroUtils.ts 61-66: the aliases whose station the layout has, after the
\* names of the layout.
KeysOfAliases ==
  SelectSeq([n \in 1..Len(manualAliases) |->
               [key |-> normalizeMetroComparable(manualAliases[n].key),
                code |-> manualAliases[n].code]],
            LAMBDA alias : alias.code \in METRO_STATION_BY_CODE)

\* `if (key && !map.has(key)) map.set(key, code)` over a sequence of offers:
\* an empty key is never set and a key keeps the code of its first offer.
FirstOffers(offers) ==
  LET firsts == {i \in 1..Len(offers) :
                   /\ offers[i].key # << >>
                   /\ \A j \in 1..(i - 1) : offers[j].key # offers[i].key}
  IN  [k \in 1..Cardinality(firsts) |->
         LET i == CHOOSE i \in firsts : Cardinality({j \in firsts : j <= i}) = k
         IN  [key |-> offers[i].key, value |-> offers[i].code]]

\* metroUtils.ts 23-69.
METRO_STATION_CODE_BY_NAME ==
  FirstOffers(KeysOfLayout(METRO_STATION_LAYOUT, Len(METRO_STATION_LAYOUT)) \o KeysOfAliases)

\* metroUtils.ts 75-77.
isKnownMetroStation(code) == code \in METRO_STATION_BY_CODE

\* metroUtils.ts 91-104: the code (Some) or null (None).
resolveMetroStationCode(value) ==
  IF IsFalsy(value) THEN None
  ELSE IF normalizeMetroComparable(value) = << >> THEN None
  ELSE MapGet(METRO_STATION_CODE_BY_NAME, normalizeMetroComparable(value))

\* part_004:895-926 on the operator texts of the model: each of them contains
\* a keyword of one brand only.
getOperatorBrand(value) ==
  IF value \in {"Metro Bilbao", "MB General"} THEN Some([label |-> "Metro Bilbao"])
  ELSE IF value = "Bizkaibus" THEN Some([label |-> "Bizkaibus"])
  ELSE None

\* part_001:751-762: the bucket of a known station is created at its first
\* use; an unknown code has no bucket.
getOrCreateMetroStation(usage, code) ==
  IF code \notin METRO_STATION_BY_CODE \/ MapHas(usage, code) THEN usage
  ELSE MapSet(usage, code, [code |-> code, entries |-> 0, passThrough |-> 0])

AddPassThrough(usage, code) ==
  MapSet(usage, code, [MapGet(usage, code)[1] EXCEPT !.passThrough = @ + 1])

\* pathCodes.forEach counting every station of the path, its two ends
\* included.
RECURSIVE PathLoop_CountsEnds(_, _, _)
PathLoop_CountsEnds(usage, pathCodes, n) ==
  IF n = 0 THEN usage
  ELSE LET stationBucket == getOrCreateMetroStation(
                              PathLoop_CountsEnds(usage, pathCodes, n - 1), pathCodes[n])
       IN  IF MapHas(stationBucket, pathCodes[n])
           THEN AddPassThrough(stationBucket, pathCodes[n])
           ELSE stationBucket

\* part_001:922-927: pathCodes.forEach.
RECURSIVE PathLoop(_, _, _)
PathLoop(usage, pathCodes, n) ==
  IF n = 0 THEN usage
  ELSE LET stationBucket == getOrCreateMetroStation(PathLoop(usage, pathCodes, n - 1),
                                                    pathCodes[n])
       IN  IF MapHas(stationBucket, pathCodes[n]) /\ n > 1 /\ n < Len(pathCodes)
           THEN AddPassThrough(stationBucket, pathCodes[n])
           ELSE stationBucket

\* part_001:913-939: the metro part of the body of journeys.forEach, on
\* [usage, trips].
TripBody(journey, usage, trips) ==
  LET same == [usage |-> usage, trips |-> trips]
      startBrand == getOperatorBrand(journey.start.operador)
      endBrand == IF IsSome(journey.end) THEN getOperatorBrand(journey.end[1].operador)
                  ELSE None
      startCode == resolveMetroStationCode(journey.start.equipo)
      endCode == IF IsSome(journey.end) THEN resolveMetroStationCode(journey.end[1].equipo)
                 ELSE None
  IN  IF journey.kind # "viaje" THEN same
      ELSE IF ~(startBrand = Some([label |-> "Metro Bilbao"])
                  /\ endBrand = Some([label |-> "Metro Bilbao"])) THEN same
      ELSE IF ~(IsSome(startCode) /\ IsSome(endCode)) THEN same
      ELSE LET pathCodes == SelectSeq(findMetroPath(startCode[1], endCode[1]),
                                      isKnownMetroStation)
           IN  IF Len(pathCodes) >= 2
               THEN [usage |-> PathLoop(usage, pathCodes, Len(pathCodes)),
                     trips |-> Append(trips, [id |-> journey.id,
                                              date |-> journey.start.time,
                                              from |-> startCode[1],
                                              to |-> endCode[1],
                                              pathCodes |-> pathCodes])]
               ELSE same

\* part_001:1068: (a, b) => a.date.getTime() - b.date.getTime().
SortTrips(trips) ==
  LET key == [i \in 1..Len(trips) |-> trips[i].date]
  IN  [k \in 1..Len(trips) |-> trips[CHOOSE i \in 1..Len(trips) : StableRank(key, i) = k]]

Tap(operador, equipo, time) == [operador |-> operador, equipo |-> equipo, time |-> time]

Abando == << "A", "b", "a", "n", "d", "o" >>

ABANDO == << "A", "B", "A", "N", "D", "O" >>

CascoViejo == << "C", "a", "s", "c", "o", " ", "V", "i", "e", "j", "o" >>

Matiko == << "M", "a", "t", "i", "k", "o" >>

Bolueta == << "B", "o", "l", "u", "e", "t", "a" >>

Termibus == << "T", "e", "r", "m", "i", "b", "u", "s" >>

\* The journeys of the runs: trips across a junction, between neighbours,
\* within one station, to a stop that is no metro station, with a bus leg,
\* and a single validation.
TripJourneyPool ==
  { [id |-> "a", kind |-> "viaje", start |-> Tap("Metro Bilbao", Abando, 500),
     end |-> Some(Tap("Metro Bilbao", Matiko, 560))],
    [id |-> "b", kind |-> "viaje", start |-> Tap("MB General", Bolueta, 400),
     end |-> Some(Tap("Metro Bilbao", ABANDO, 460))],
    [id |-> "c", kind |-> "viaje", start |-> Tap("Metro Bilbao", Abando, 300),
     end |-> Some(Tap("Metro Bilbao", ABANDO, 310))],
    [id |-> "d", kind |-> "viaje", start |-> Tap("Metro Bilbao", Abando, 200),
     end |-> Some(Tap("Metro Bilbao", CascoViejo, 230))],
    [id |-> "e", kind |-> "viaje", start |-> Tap("Metro Bilbao", Abando, 100),
     end |-> Some(Tap("Metro Bilbao", Termibus, 130))],
    [id |-> "f", kind |-> "viaje", start |-> Tap("Bizkaibus", Abando, 100),
     end |-> Some(Tap("Metro Bilbao", Matiko, 130))],
    [id |-> "g", kind |-> "viaje-unico", start |-> Tap("Metro Bilbao", Abando, 50),
     end |-> None],
    [id |-> "h", kind |-> "viaje", start |-> Tap("Metro Bilbao", NullName, 40),
     end |-> Some(Tap("Metro Bilbao", Matiko, 45))] }

MaxTripJourneys == 3

InitMetroTrips ==
  /\ records = << >>
  /\ pc = "trips"
  /\ sorted = << >>
  /\ idx = 1
  /\ fare = FareStart
  /\ jst = JourneyStart
  /\ journeys = << >>
  /\ stats = createJourneyStats
  /\ part = {}
  /\ rollup = createJourneyStats
  /\ mFrom = ""
  /\ mTo = ""
  /\ search = NoSearch
  /\ mpc = "idle"
  /\ TableIdle
  /\ StreakIdle
  /\ CacheIdle
  /\ tripJourneys \in UNION {[1..n -> TripJourneyPool] : n \in 0..MaxTripJourneys}
  /\ tripIdx = 1
  /\ metroStationUsage = << >>
  /\ metroTrips = << >>

\* part_001:907-939: one journey of journeys.forEach.
TripStep ==
  /\ pc = "trips"
  /\ tripIdx <= Len(tripJourneys)
  /\ metroStationUsage' = TripBody(tripJourneys[tripIdx], metroStationUsage, metroTrips).usage
  /\ metroTrips' = TripBody(tripJourneys[tripIdx], metroStationUsage, metroTrips).trips
  /\ tripIdx' = tripIdx + 1
  /\ UNCHANGED << pipelineVars, metroVars, tableVars, streakVars, cacheVars, tripJourneys >>

\* part_001:1068-1085: the trips sorted by date; totalTrips is their number.
TripsSummary ==
  /\ pc = "trips"
  /\ tripIdx > Len(tripJourneys)
  /\ metroTrips' = SortTrips(metroTrips)
  /\ pc' = "metro-summary"
  /\ UNCHANGED << records, sorted, idx, fare, jst, journeys, stats, part, rollup,
                  metroVars, tableVars, streakVars, cacheVars,
                  tripJourneys, tripIdx, metroStationUsage >>

NextMetroTrips ==
  \/ TripStep
  \/ TripsSummary

SpecMetroTrips == InitMetroTrips /\ [][NextMetroTrips]_vars


\* A `viaje` journey between two Metro Bilbao validations whose stops both
\* resolve to a station code.
MetroViaje(journey) ==
  /\ journey.kind = "viaje"
  /\ IsSome(journey.end)
  /\ getOperatorBrand(journey.start.operador) = Some([label |-> "Metro Bilbao"])
  /\ getOperatorBrand(journey.end[1].operador) = Some([label |-> "Metro Bilbao"])
  /\ IsSome(resolveMetroStationCode(journey.start.equipo))
  /\ IsSome(resolveMetroStationCode(journey.end[1].equipo))

SameStation(journey) ==
  resolveMetroStationCode(journey.start.equipo) = resolveMetroStationCode(journey.end[1].equipo)

PassThroughOf(code) ==
  IF MapHas(metroStationUsage, code) THEN MapGet(metroStationUsage, code)[1].passThrough
  ELSE 0

\* How many times a station is an intermediate station of a recorded trip.
InteriorCount(code) ==
  Cardinality({pos \in (1..Len(metroTrips)) \X (1..Cardinality(METRO_STATION_BY_CODE)) :
                 /\ pos[2] > 1
                 /\ pos[2] < Len(metroTrips[pos[1]].pathCodes)
                 /\ metroTrips[pos[1]].pathCodes[pos[2]] = code})

PassThroughIsInterior ==
  \A code \in METRO_STATION_BY_CODE : PassThroughOf(code) = InteriorCount(code)

\* C27 as stated: every `viaje` between two Metro Bilbao validations that
\* resolve to known stations is one recorded trip, and passThrough counts
\* exactly the intermediate stations of the recorded paths.
C27_EveryMetroViajeIsOneTrip ==
  pc = "metro-summary" =>
    /\ Len(metroTrips) = Cardinality({i \in 1..Len(tripJourneys) : MetroViaje(tripJourneys[i])})
    /\ PassThroughIsInterior

\* C27 amended: a `viaje` between two Metro Bilbao validations is one
\* recorded trip when its stops resolve to two different stations; a journey
\* that enters and leaves at the same station has a path of one station and
\* is not recorded.  Every recorded trip has different ends, and passThrough
\* counts exactly the intermediate stations of the recorded paths, never the
\* first or the last one.
C27_DistinctStationsOneTrip ==
  pc = "metro-summary" =>
    /\ Len(metroTrips) =
         Cardinality({i \in 1..Len(tripJourneys) :
                        MetroViaje(tripJourneys[i]) /\ ~SameStation(tripJourneys[i])})
    /\ \A k \in 1..Len(metroTrips) :
         /\ metroTrips[k].from # metroTrips[k].to
         /\ metroTrips[k].pathCodes[1] = metroTrips[k].from
         /\ metroTrips[k].pathCodes[Len(metroTrips[k].pathCodes)] = metroTrips[k].to
         /\ \E i \in 1..Len(tripJourneys) :
              /\ tripJourneys[i].id = metroTrips[k].id
              /\ MetroViaje(tripJourneys[i])
    /\ PassThroughIsInterior

C27_Witness ==
  /\ pc = "metro-summary"
  /\ Len(tripJourneys) = 3
  /\ \E i \in 1..3 : tripJourneys[i].id = "c"
  /\ \E i \in 1..3 : tripJourneys[i].id = "b"
  /\ \E i \in 1..3 : tripJourneys[i].id = "a"
  /\ Len(metroTrips) = 2
  /\ metroTrips[1].id = "b"
  /\ metroTrips[2].pathCodes = << "ABA", "CAV", "ZAZ", "URI", "MAT" >>
  /\ PassThroughOf("CAV") = 2
  /\ PassThroughOf("ABA") = 0
  /\ PassThroughOf("URI") = 1


(***************************************************************************)
(* Inputs whose order differs from the order of their times: an exit that  *)
(* is earlier than an entry, and entries given after their exits.          *)
(***************************************************************************)
DisorderPool ==
  { Rec(1, 1, 100, Entrada, "Metro Bilbao", "Creditrans barik", -155),
    Rec(1, 2, 40, Salida, "Metro Bilbao", "Creditrans barik", 0),
    Rec(1, 3, 160, Salida, "Metro Bilbao", "Creditrans barik", 0),
    Rec(1, 4, 130, Entrada, "Bizkaibus", "Creditrans barik", -155),
    Rec(1, 5, 70, Unica, "Bilbobus", "Creditrans barik", -96) }

InitDisorder == InitPipeline(InputsOf(DisorderPool))

SpecDisorder == InitDisorder /\ [][NextSummary]_vars

DisorderReasons == {"entrada-desorden", "salida-desorden"}

NoDisorder(journeyList) ==
  \A i \in 1..Len(journeyList) : journeyList[i].reason \notin DisorderReasons

\* The loop of buildJourneyBlocks is at an exit while an entry is pending.
AtExitWithPending ==
  /\ pc = "journeys"
  /\ idx <= Len(sorted)
  /\ ~isRecargaTransaction(sorted[idx])
  /\ ~isSingleValidation(sorted[idx])
  /\ ~isEntryValidation(sorted[idx])
  /\ isExitValidation(sorted[idx])
  /\ IsSome(jst.pendingEntry)

\* C30: buildJourneyBlocks pairs over the records sorted ascending by time,
\* so an exit that meets a pending entry is never earlier than it, and no
\* journey with reason entrada-desorden or salida-desorden is emitted,
\* whatever the order of the input.
C30_NoClockDisorder ==
  [][/\ AtExitWithPending
          => getRecordDate(sorted[idx]) - getRecordDate(jst.pendingEntry[1]) >= 0
     /\ NoDisorder(jst'.journeys)
     /\ NoDisorder(journeys')]_vars

\* The input gives an exit after an entry that is later than it, the loop
\* has met an exit with an entry pending, and the journeys are returned.
C30_Witness ==
  /\ pc = "stats"
  /\ \E i, j \in 1..Len(records) :
       /\ i < j
       /\ isEntryValidation(records[i])
       /\ isExitValidation(records[j])
       /\ getRecordDate(records[j]) < getRecordDate(records[i])
  /\ \E k \in 1..Len(journeys) : journeys[k].kind = "viaje"
  /\ NoDisorder(journeys)


====
